---------------------------- MODULE Spec2Model ----------------------------
(***************************************************************************)
(* Retrieval engine of the survey-analysis agent.                          *)
(*                                                                         *)
(*   Spec       one multi_query_search invocation of a retrieval session   *)
(*              (semantic_search_tool.py) against EmbeddingStore.search    *)
(*              (embeddings_service.py), followed by resolve_citations     *)
(*              (citation_resolver.py).                                    *)
(*   SpecEmbed  EmbeddingStore._generate_embedding_with_retry.             *)
(*   SpecIngest the upload of one CSV (csv_upload_handler) and two         *)
(*              concurrent invocations of the embedding consumer, each     *)
(*              running EmbeddingStore.add_dataframe on a chunk.           *)
(*   SpecGateway one call of the index gateway of EmbeddingStore:          *)
(*              _check_existing_vectors, _upload_vectors,                  *)
(*              delete_all_vectors or search.                              *)
(*   SpecAddDataframe one direct add_dataframe call.                       *)
(*   SpecResolve the citation resolution and the enriched response of     *)
(*              run_query_with_citations on one agent output.              *)
(*   SpecRequests two interleaved requests on the shared agent and         *)
(*              embedding store (run_query_with_citations).                *)
(*   SpecTermination one add_dataframe call with the retry loop of         *)
(*              every row, under weak fairness.                            *)
(*   SpecRun    a run of the agent that may call multi_query_search more   *)
(*              than once.                                                 *)
(*   SpecJobs   two requests to the job initiator (job_initiator,          *)
(*              job_service) and the asynchronous agent invocations they   *)
(*              cause (survey_agent handler); SpecJobsFair adds weak       *)
(*              fairness.                                                  *)
(*   SpecSend   one send_messages_to_sqs call of csv_upload_handler.       *)
(*                                                                         *)
(* Scores and distances are fixed-point numbers in units of 1/10000, so    *)
(* that 0.15 is 1500 and 1.0 is 10000.                                     *)
(***************************************************************************)
EXTENDS Integers, Sequences, FiniteSets, TLC

VARIABLES
    index,              \* content of the external vector index
    top_k_per_query,    \* argument of multi_query_search
    pc,                 \* position of the multi_query_search invocation
    queries,            \* search_queries.queries
    qi,                 \* 1-based position of the loop over the queries
    seen_uids,          \* seen_uids
    all_dfs,            \* all_dfs
    successful_queries, \* successful_queries
    search_results,     \* ctx.deps.search_results
    ret,                \* what multi_query_search gave its caller
    rewriteCalls,       \* number of query_agent.run_sync calls
    searchCalls,        \* arguments and outcome of every embedding_store.search call
    indexCalls,         \* query_params of every s3vectors query_vectors call
    rewriteOutcome,     \* how query_agent.run_sync ended
    output,             \* the agent's AnalysisOutput
    cited,              \* result of resolve_citations
    response,           \* the enriched response of run_query_with_citations
    text,               \* argument of _generate_embedding_with_retry
    rate_limit_retries, \* self.rate_limit_retries
    attempt,            \* loop variable of the retry loop
    epc,                \* position of _generate_embedding_with_retry
    outcomes,           \* what the embedding model answered, call by call
    sleeps,             \* arguments of the time.sleep calls, in order
    eret,               \* what _generate_embedding_with_retry gave its caller
    invoke_calls,       \* number of bedrock invoke_model calls made so far
    csv,                \* the uploaded CSV file
    messages,           \* the chunk messages on the queue
    chunks_sent,        \* what process_csv_file returned
    ing,                \* the invocations of the embedding consumer
    gw,                 \* one call of the index gateway
    requests,           \* the multi_query_search invocation of every request
    deps_search_results, \* the lists behind deps.search_results
    job_table,          \* the items of the job table, by jobId
    initiators,         \* the requests to the job initiator
    agent_calls,        \* the asynchronous invocations of the agent handler
    sender              \* one send_messages_to_sqs call

searchVars == <<index, top_k_per_query, pc, queries, qi, seen_uids, all_dfs,
                successful_queries, search_results, ret, rewriteCalls,
                searchCalls, indexCalls, rewriteOutcome, output, cited, response>>
embedVars  == <<text, rate_limit_retries, attempt, epc, outcomes, sleeps, eret,
                invoke_calls>>
sessionVars == <<top_k_per_query, pc, queries, qi, seen_uids, all_dfs,
                 successful_queries, search_results, ret, rewriteCalls,
                 searchCalls, indexCalls, rewriteOutcome, output, cited, response>>
ingestVars == <<csv, messages, chunks_sent, ing>>
gatewayVars == <<gw>>
requestVars == <<requests, deps_search_results>>
jobVars    == <<job_table, initiators, agent_calls>>
sendVars   == <<sender>>
vars       == <<searchVars, embedVars, ingestVars, gatewayVars, requestVars,
                jobVars, sendVars>>

---------------------------------------------------------------------------
(* Bounds of the model *)

NumRecords == 2
MaxQueries == 2
MaxAttempts == 5
MaxRows == 3
MaxKeys == 250
MaxToolCalls == 2
MaxMessages == 21

(* Program constants *)

ONE == 10000
THRESHOLD == 1500
S3_MAX_TOP_K == 100
DEFAULT_TOP_K == 100
DEFAULT_RETRIES == 5
CHUNK_SIZE == 2
SQS_BATCH_SIZE == 10
CHECK_BATCH_SIZE == 100
DEFAULT_MAX_ROWS == 1000
DELETE_BATCH_SIZE == 500
TEXT_ANSWER_LIMIT == 1500
QUESTION_LIMIT == 300
EVENT_NAME_LIMIT == 100
DEFAULT_MAX_COUNT == 1000

\* Optional values are sequences of length at most one.
None == <<>>
Some(x) == <<x>>
NoUid == "<no uid metadata>"
NonStr == "<not a str>"
Blank == "   "
NoFilter == [op |-> "none"]

Keys == 1 .. NumRecords
UidValues == {"a", "b", NoUid}
QueryEntries == {"great food", Blank, NonStr}
CitationIds == {"aB3xY", "Zk9Qp"}
TopKValues == {1, DEFAULT_TOP_K}

Range(s) == {s[i] : i \in DOMAIN s}
Min(a, b) == IF a < b THEN a ELSE b

RECURSIVE Concat(_)
Concat(dfs) == IF dfs = <<>> THEN <<>> ELSE Head(dfs) \o Concat(Tail(dfs))

RECURSIVE SeqsUpTo(_, _)
SeqsUpTo(S, n) ==
    IF n = 0 THEN {<<>>}
    ELSE LET shorter == SeqsUpTo(S, n - 1)
         IN  shorter \cup {Append(s, x) : s \in {t \in shorter : Len(t) = n - 1}, x \in S}

---------------------------------------------------------------------------
(* The external vector index *)

\* A stored vector record: its key and the metadata the searches read back.
VectorRecord(k, u) ==
    [key |-> k, uid |-> u,
     text_answer |-> <<"answer", k>>, question |-> <<"question", k>>,
     event_name |-> "eventA", response_id |-> <<"resp", (k + 1) \div 2>>,
     csv_source |-> "eventA"]

IndexContents == {{VectorRecord(k, f[k]) : k \in Keys} : f \in [Keys -> UidValues]}

\* Cosine distance between the n-th query of the list and a record.
Distance(n, rec) ==
    CASE (rec.key + n) % 3 = 0 -> 7000
      [] (rec.key + n) % 3 = 1 -> 8500
      [] OTHER -> 8501

\* The index applies the filter it is sent; the uid of a record stored without
\* one is in no list of values.
Matches(rec, filter) ==
    CASE filter.op = "none" -> TRUE
      [] filter.op = "nin" -> rec[filter.field] \notin Range(filter.values)
      [] filter.op = "eq" -> rec[filter.field] = filter.value
      [] OTHER -> \A c \in Range(filter.clauses) :
                     IF c.op = "nin" THEN rec[c.field] \notin Range(c.values)
                     ELSE rec[c.field] = c.value

RECURSIVE ByDistance(_, _)
ByDistance(n, recs) ==
    IF recs = {} THEN <<>>
    ELSE LET r == CHOOSE x \in recs : \A y \in recs :
                      \/ Distance(n, x) < Distance(n, y)
                      \/ Distance(n, x) = Distance(n, y) /\ x.key <= y.key
         IN  <<[metadata |-> r, distance |-> Distance(n, r)]>> \o ByDistance(n, recs \ {r})

\* The answers query_vectors can give: at most topK of the matching records,
\* nearest first.
QueryVectors(n, params) ==
    {ByDistance(n, hits) :
        hits \in {h \in SUBSET {r \in index : Matches(r, params.filter)} :
                     Cardinality(h) <= params.topK}}

---------------------------------------------------------------------------
(* EmbeddingStore.search *)

\* filters is a sequence of <<key, value>> pairs, exclude_uids an optional list.
FilterComponents(filters, exclude_uids) ==
    LET active == SelectSeq(filters, LAMBDA kv : kv[2] # "")
        eqs == [i \in 1 .. Len(active) |->
                   [op |-> "eq", field |-> active[i][1], value |-> active[i][2]]]
    IN  IF exclude_uids # None /\ Len(exclude_uids[1]) > 0
        THEN Append(eqs, [op |-> "nin", field |-> "uid", values |-> exclude_uids[1]])
        ELSE eqs

MetadataFilterAlwaysAnd(filter_components) ==
    IF Len(filter_components) >= 1 THEN [op |-> "and", clauses |-> filter_components]
    ELSE NoFilter
MetadataFilter(filter_components) ==
    IF Len(filter_components) > 1 THEN [op |-> "and", clauses |-> filter_components]
    ELSE IF Len(filter_components) = 1 THEN filter_components[1]
    ELSE NoFilter

QueryParams(top_k, filters, exclude_uids) ==
    [topK |-> Min(top_k, S3_MAX_TOP_K),
     filter |-> MetadataFilter(FilterComponents(filters, exclude_uids))]

\* One row of the DataFrame search returns.
HitRow(vector) ==
    LET metadata == vector.metadata
    IN  [uid |-> IF metadata.uid = NoUid THEN "" ELSE metadata.uid,
         similarity_score |-> ONE - vector.distance,
         text_answer |-> metadata.text_answer,
         question |-> metadata.question,
         event_name |-> metadata.event_name,
         response_id |-> metadata.response_id,
         csv_source |-> metadata.csv_source]

SearchResult(vectors) == [i \in 1 .. Len(vectors) |-> HitRow(vectors[i])]

---------------------------------------------------------------------------
(* multi_query_search *)

IsSearchable(query) == query # NonStr /\ query # Blank

\* ExcludeArg with the exclusion left out of the call.
ExcludeArgOmitted(seen) == None

ExcludeArg(seen) == IF seen # <<>> THEN Some(seen) ELSE None

UidList(results_df) == [i \in 1 .. Len(results_df) |-> results_df[i].uid]

ExtendSeen(seen, results_df) == seen \o UidList(results_df)

\* AfterSearchFailure with the loop left instead of continued.
AfterSearchFailureBreak(i) == Len(queries) + 1

\* Where the loop goes after the search of the query at position i raised.
AfterSearchFailure(i) == i + 1

\* The rows of df in every order sort_values may leave them in: by
\* similarity_score descending, rows of equal score in any order.
RECURSIVE SortValues(_)
SortValues(df) ==
    IF df = <<>> THEN {<<>>}
    ELSE UNION {
           {<<df[i]>> \o rest :
               rest \in SortValues([j \in 1 .. Len(df) - 1 |->
                                       IF j < i THEN df[j] ELSE df[j + 1]])} :
           i \in {k \in DOMAIN df : \A m \in DOMAIN df :
                     df[k].similarity_score >= df[m].similarity_score}}

\* ThresholdFilter with a strict comparison.
ThresholdFilterStrict(df) == SelectSeq(df, LAMBDA row : row.similarity_score > THRESHOLD)

ThresholdFilter(df) == SelectSeq(df, LAMBDA row : row.similarity_score >= THRESHOLD)

\* format_results_with_ids, the random ids being ids[1], ids[2], ...
WithIds(df, ids) ==
    [i \in 1 .. Len(df) |->
        [id |-> ids[i], uid |-> df[i].uid, similarity_score |-> df[i].similarity_score,
         text_answer |-> df[i].text_answer, question |-> df[i].question,
         event_name |-> df[i].event_name, response_id |-> df[i].response_id,
         csv_source |-> df[i].csv_source]]

ResultLines(df) ==
    [i \in 1 .. Len(df) |->
        [id |-> df[i].id, event_name |-> df[i].event_name,
         question |-> df[i].question, text_answer |-> df[i].text_answer]]

Message(m) == [kind |-> "message", message |-> m]
Raised(e) == [kind |-> "raise", message |-> e]
Block(total_unique, n_queries, lines) ==
    [kind |-> "block", message |-> "Found",
     total_unique |-> total_unique, queries |-> n_queries, lines |-> lines]

EMPTY_QUERIES_MSG == "Error: queries_json must be a non-empty JSON array of strings."
NO_MATCH_MSG == "No matching responses found."
THRESHOLD_MSG == "No matching responses found with similarity >= 0.15."

\* What the rewrite capability can hand back.
QueryLists == SeqsUpTo(QueryEntries, MaxQueries)

\* _generate_search_queries and the check of its result.  run_sync either
\* raises (a model error, or output that fails validation), which
\* _generate_search_queries rethrows as RuntimeError and the except clause of
\* multi_query_search (JSONDecodeError, TypeError) does not catch, or hands
\* back a query list.
Rewrite ==
    /\ pc = "expanding"
    /\ rewriteCalls' = rewriteCalls + 1
    /\ \/ /\ rewriteOutcome' = "raised"
          /\ ret' = Raised("RuntimeError")
          /\ pc' = "done"
          /\ UNCHANGED queries
       \/ \E qs \in QueryLists :
             /\ rewriteOutcome' = "returned"
             /\ queries' = qs
             /\ IF qs = <<>>
                THEN ret' = Message(EMPTY_QUERIES_MSG) /\ pc' = "done"
                ELSE ret' = ret /\ pc' = "searching"
    /\ UNCHANGED <<index, top_k_per_query, qi, seen_uids, all_dfs, successful_queries,
                   search_results, searchCalls, indexCalls, output, cited,
                   response>>
    /\ UNCHANGED <<embedVars, ingestVars, gatewayVars, requestVars, jobVars, sendVars>>

\* A loop pass over an entry that is no string or blank.
SkipEntry ==
    /\ pc = "searching"
    /\ qi <= Len(queries)
    /\ ~IsSearchable(queries[qi])
    /\ qi' = qi + 1
    /\ UNCHANGED <<index, top_k_per_query, pc, queries, seen_uids, all_dfs,
                   successful_queries, search_results, ret, rewriteCalls,
                   searchCalls, indexCalls, rewriteOutcome, output, cited,
                   response>>
    /\ UNCHANGED <<embedVars, ingestVars, gatewayVars, requestVars, jobVars, sendVars>>

\* Accumulate without the test for an empty DataFrame.
AccumulateAlways(results_df) ==
    /\ seen_uids' = ExtendSeen(seen_uids, results_df)
    /\ all_dfs' = Append(all_dfs, results_df)
    /\ successful_queries' = successful_queries + 1

\* The body of the loop once search has returned results_df.
Accumulate(results_df) ==
    IF results_df # <<>>
    THEN /\ seen_uids' = ExtendSeen(seen_uids, results_df)
         /\ all_dfs' = Append(all_dfs, results_df)
         /\ successful_queries' = successful_queries + 1
    ELSE UNCHANGED <<seen_uids, all_dfs, successful_queries>>

\* A loop pass that calls embedding_store.search.
SearchQuery ==
    /\ pc = "searching"
    /\ qi <= Len(queries)
    /\ IsSearchable(queries[qi])
    /\ LET exclude_uids == ExcludeArg(seen_uids)
           call == [n |-> qi, query |-> queries[qi], top_k |-> top_k_per_query,
                    exclude_uids |-> exclude_uids]
           params == QueryParams(top_k_per_query, <<>>, exclude_uids)
       IN  \/ \* generate_embedding raises: search raises, the loop goes on
              /\ searchCalls' = Append(searchCalls, [call |-> call, raised |-> TRUE, df |-> <<>>])
              /\ qi' = AfterSearchFailure(qi)
              /\ UNCHANGED <<indexCalls, seen_uids, all_dfs, successful_queries>>
           \/ \* query_vectors raises: search returns an empty DataFrame
              /\ searchCalls' = Append(searchCalls, [call |-> call, raised |-> FALSE, df |-> <<>>])
              /\ indexCalls' = Append(indexCalls, params)
              /\ Accumulate(<<>>)
              /\ qi' = qi + 1
           \/ \E vectors \in QueryVectors(qi, params) :
                 LET results_df == SearchResult(vectors)
                 IN  /\ searchCalls' = Append(searchCalls,
                                         [call |-> call, raised |-> FALSE, df |-> results_df])
                     /\ indexCalls' = Append(indexCalls, params)
                     /\ Accumulate(results_df)
                     /\ qi' = qi + 1
    /\ UNCHANGED <<index, top_k_per_query, pc, queries, search_results, ret,
                   rewriteCalls, rewriteOutcome, output, cited,
                   response>>
    /\ UNCHANGED <<embedVars, ingestVars, gatewayVars, requestVars, jobVars, sendVars>>

----------------------------------------------------------------------

\* After the loop: merge, threshold, format, store, return.
MergeEarly ==
    /\ pc = "searching"
    /\ qi > 1
    /\ pc' = "done"
    /\ IF all_dfs = <<>>
       THEN ret' = Message(NO_MATCH_MSG) /\ UNCHANGED search_results
       ELSE \E sorted \in SortValues(Concat(all_dfs)) :
               LET combined_df == ThresholdFilter(sorted)
               IN  IF combined_df = <<>>
                   THEN ret' = Message(THRESHOLD_MSG) /\ UNCHANGED search_results
                   ELSE \E ids \in [1 .. Len(combined_df) -> CitationIds] :
                           LET combined_df_with_ids == WithIds(combined_df, ids)
                           IN  /\ search_results' = Append(search_results, combined_df_with_ids)
                               /\ ret' = Block(Len(combined_df_with_ids), successful_queries,
                                               ResultLines(combined_df_with_ids))
    /\ UNCHANGED <<index, top_k_per_query, queries, qi, seen_uids, all_dfs,
                   successful_queries, rewriteCalls, searchCalls, indexCalls,
                   rewriteOutcome, output, cited, response>>
    /\ UNCHANGED <<embedVars, ingestVars, gatewayVars, requestVars, jobVars, sendVars>>
Merge ==
    /\ pc = "searching"
    /\ qi > Len(queries)
    /\ pc' = "done"
    /\ IF all_dfs = <<>>
       THEN ret' = Message(NO_MATCH_MSG) /\ UNCHANGED search_results
       ELSE \E sorted \in SortValues(Concat(all_dfs)) :
               LET combined_df == ThresholdFilter(sorted)
               IN  IF combined_df = <<>>
                   THEN ret' = Message(THRESHOLD_MSG) /\ UNCHANGED search_results
                   ELSE \E ids \in [1 .. Len(combined_df) -> CitationIds] :
                           LET combined_df_with_ids == WithIds(combined_df, ids)
                           IN  /\ search_results' = Append(search_results, combined_df_with_ids)
                               /\ ret' = Block(Len(combined_df_with_ids), successful_queries,
                                               ResultLines(combined_df_with_ids))
    /\ UNCHANGED <<index, top_k_per_query, queries, qi, seen_uids, all_dfs,
                   successful_queries, rewriteCalls, searchCalls, indexCalls,
                   rewriteOutcome, output, cited, response>>
    /\ UNCHANGED <<embedVars, ingestVars, gatewayVars, requestVars, jobVars, sendVars>>

\* The agent calls multi_query_search a further time in the same run, after
\* an earlier call has returned its text: seen_uids, all_dfs and
\* successful_queries are locals of the call and start afresh, while the
\* tables stored in deps.search_results stay.
Reinvoke ==
    /\ pc = "done"
    /\ ret.kind # "raise"
    /\ rewriteCalls < MaxToolCalls
    /\ pc' = "expanding"
    /\ queries' = <<>>
    /\ qi' = 1
    /\ seen_uids' = <<>>
    /\ all_dfs' = <<>>
    /\ successful_queries' = 0
    /\ ret' = [kind |-> "none", message |-> ""]
    /\ UNCHANGED <<index, top_k_per_query, search_results, rewriteCalls, searchCalls,
                   indexCalls, rewriteOutcome, output, cited, response>>
    /\ UNCHANGED <<embedVars, ingestVars, gatewayVars, requestVars, jobVars, sendVars>>

---------------------------------------------------------------------------
(* resolve_citations *)

CitedResponseUntagged(result, theme) ==
    [response_id |-> result.response_id, survey_id |-> result.csv_source,
     game_name |-> result.event_name, response_text |-> result.text_answer,
     question |-> result.question, similarity_score |-> result.similarity_score,
     excerpt |-> result.text_answer, theme |-> ""]
CitedResponse(result, theme) ==
    [response_id |-> result.response_id, survey_id |-> result.csv_source,
     game_name |-> result.event_name, response_text |-> result.text_answer,
     question |-> result.question, similarity_score |-> result.similarity_score,
     excerpt |-> result.text_answer, theme |-> theme.name]

\* The records one theme contributes, citation by citation.
RECURSIVE CitedOfTheme(_, _, _)
CitedOfTheme(theme, citations, search_results_df) ==
    IF citations = <<>> THEN <<>>
    ELSE LET match == SelectSeq(search_results_df, LAMBDA row : row.id = Head(citations))
             rest == CitedOfTheme(theme, Tail(citations), search_results_df)
         IN  IF match # <<>> THEN <<CitedResponse(match[1], theme)>> \o rest ELSE rest

RECURSIVE CitedOfThemes(_, _)
CitedOfThemes(themes, search_results_df) ==
    IF themes = <<>> THEN <<>>
    ELSE CitedOfTheme(Head(themes), Head(themes).supporting_citations, search_results_df)
         \o CitedOfThemes(Tail(themes), search_results_df)

ResolveCitations(out, search_results_df) ==
    IF search_results_df = <<>> THEN <<>>
    ELSE CitedOfThemes(out.themes, search_results_df)

\* What the summarizing agent can answer: one theme citing one id.
Outputs ==
    {[themes |-> <<[name |-> "theme", supporting_citations |-> <<c>>]>>] : c \in CitationIds}

NoOutput == [themes |-> <<>>]

NoResponse == [themes |-> <<>>]

\* The id under which run_query_with_citations files the excerpt of a cited
\* response: that of the first row of the table with its response_id.
FiledUnder(c, combined_df) ==
    LET match == SelectSeq(combined_df, LAMBDA row : row.response_id = c.response_id)
    IN  IF match # <<>> THEN Some(match[1].id) ELSE None

\* id_to_excerpt as the list of its assignments, in the order they are made.
IdToExcerpt(cited_responses, combined_df) ==
    LET filed == SelectSeq(cited_responses, LAMBDA c : FiledUnder(c, combined_df) # None)
    IN  [i \in 1 .. Len(filed) |->
            [id |-> FiledUnder(filed[i], combined_df)[1], excerpt |-> filed[i].excerpt]]

\* id_to_excerpt.get(c): the excerpt last assigned to the id, if any.  The
\* excerpts of the model are non-empty texts.
GetExcerpt(id_to_excerpt, c) ==
    LET assigned == SelectSeq(id_to_excerpt, LAMBDA a : a.id = c)
    IN  IF assigned = <<>> THEN None ELSE Some(assigned[Len(assigned)].excerpt)

\* _build_enriched_response
BuildEnrichedResponse(out, id_to_excerpt) ==
    [themes |->
        [t \in 1 .. Len(out.themes) |->
            LET found == SelectSeq(out.themes[t].supporting_citations,
                                   LAMBDA c : GetExcerpt(id_to_excerpt, c) # None)
            IN  [name |-> out.themes[t].name,
                 supporting_citations |->
                    [k \in 1 .. Len(found) |->
                        [excerpt |-> GetExcerpt(id_to_excerpt, found[k])[1]]]]]]

\* run_query_with_citations from resolve_citations to the enriched response.
EnrichedResponse(out, combined_df) ==
    BuildEnrichedResponse(out, IdToExcerpt(ResolveCitations(out, combined_df), combined_df))

\* run_query_with_citations once the agent has answered.
Resolve ==
    /\ pc = "done"
    /\ ret.kind # "raise"
    /\ \E out \in Outputs :
          /\ output' = out
          /\ cited' = ResolveCitations(out, Concat(search_results))
          /\ response' = EnrichedResponse(out, Concat(search_results))
    /\ pc' = "resolved"
    /\ UNCHANGED <<index, top_k_per_query, queries, qi, seen_uids, all_dfs,
                   successful_queries, search_results, ret, rewriteCalls,
                   searchCalls, indexCalls, rewriteOutcome>>
    /\ UNCHANGED <<embedVars, ingestVars, gatewayVars, requestVars, jobVars, sendVars>>

---------------------------------------------------------------------------
(* EmbeddingStore._generate_embedding_with_retry *)

TextValues == {"", "NaN", "great food"}
ModelOutcomes == {"success", "ThrottlingException", "ValidationException",
                  "OtherClientError", "Exception"}

\* not text or pd.isna(text)
IsMissing(t) == t = "" \/ t = "NaN"

Returned(vector, ok) == [kind |-> "return", vector |-> vector, ok |-> ok]
NotReturned == [kind |-> "none", vector |-> "None", ok |-> FALSE]
Propagated == [kind |-> "raise", vector |-> "None", ok |-> FALSE]

\* What one pass of the retry loop does after the model has answered:
\* the sleep it makes, if any, and whether it returns.
Continue(wait) == [sleep |-> wait, returns |-> FALSE, result |-> NotReturned]
Return(result) == [sleep |-> None, returns |-> TRUE, result |-> result]

\* WaitTime with a product for the power.
WaitTimeProduct(a) == 2 * a

WaitTime(a) == 2 ^ a

OnSuccess == Return(Returned("embedding", TRUE))

OnThrottling(a) == Continue(Some(WaitTime(a)))

\* OnValidation with the attempt retried like any other failure.
OnValidationRetried == Continue(None)

OnValidation == Return(Returned("None", FALSE))

\* OnOtherClientError without the test for the last attempt.
OnOtherClientErrorSleepsLast(a, retries) == Continue(Some(WaitTime(a)))

OnOtherClientError(a, retries) ==
    IF a < retries - 1 THEN Continue(Some(WaitTime(a)))
    ELSE Return(Returned("None", FALSE))

\* OnException without the handler of unexpected exceptions.
OnExceptionUncaught == Return(Propagated)

OnException == Return(Returned("None", FALSE))

Pass(outcome, a, retries) ==
    CASE outcome = "success" -> OnSuccess
      [] outcome = "ThrottlingException" -> OnThrottling(a)
      [] outcome = "ValidationException" -> OnValidation
      [] outcome = "OtherClientError" -> OnOtherClientError(a, retries)
      [] OTHER -> OnException

\* for attempt in range(self.rate_limit_retries): whether a pass follows the
\* pass of the given attempt.
MoreAttemptsOneExtra(this_attempt, retries) == this_attempt < retries
MoreAttempts(this_attempt, retries) == this_attempt + 1 < retries

\* Entry of _generate_embedding_with_retry up to the first model call.
EmbedStart ==
    /\ epc = "start"
    /\ IF IsMissing(text)
       THEN eret' = Returned("zeros", TRUE) /\ epc' = "done"
       ELSE IF rate_limit_retries <= 0
            THEN eret' = Returned("None", FALSE) /\ epc' = "done"
            ELSE eret' = eret /\ epc' = "calling"
    /\ UNCHANGED <<text, rate_limit_retries, attempt, outcomes, sleeps, invoke_calls>>
    /\ UNCHANGED <<searchVars, ingestVars, gatewayVars, requestVars, jobVars, sendVars>>

\* One invoke_model call, the model's answer and the rest of the loop pass.
InvokeModel ==
    /\ epc = "calling"
    /\ \E outcome \in ModelOutcomes :
          LET pass == Pass(outcome, attempt, rate_limit_retries)
          IN  /\ outcomes' = Append(outcomes, outcome)
              /\ invoke_calls' = invoke_calls + 1
              /\ sleeps' = sleeps \o pass.sleep
              /\ IF pass.returns
                 THEN eret' = pass.result /\ epc' = "done" /\ attempt' = attempt
                 ELSE IF MoreAttempts(attempt, rate_limit_retries)
                      THEN eret' = eret /\ epc' = "calling" /\ attempt' = attempt + 1
                      ELSE eret' = Returned("None", FALSE) /\ epc' = "done"
                           /\ attempt' = attempt
    /\ UNCHANGED <<text, rate_limit_retries>>
    /\ UNCHANGED <<searchVars, ingestVars, gatewayVars, requestVars, jobVars, sendVars>>

---------------------------------------------------------------------------
(* Ingestion: csv_upload_handler, embedding_consumer and the index gateway *)
(* of EmbeddingStore                                                       *)

CsvName == "eventA"
RowKinds == {"text", "empty", "choice"}
UidDraws == {"a", "b"}
GetOutcomes == {"ok", "error"}
PutOutcomes == {"ok", "ClientError", "Exception"}
Ingesters == {1, 2}

\* A string of the ingested data: the len characters of the named text that
\* start at offset from.
Str(name, len) == [text |-> name, from |-> 0, len |-> len]

\* s[:limit]
TruncateNot(s, limit) == s
Truncate(s, limit) == [s EXCEPT !.len = Min(@, limit)]

\* The lengths of the fields of the row at position n: above the limits of
\* the metadata, exactly at them, and below them.
AnswerLength(n) == CASE n % 3 = 0 -> 5000 [] n % 3 = 1 -> TEXT_ANSWER_LIMIT [] OTHER -> 10
QuestionLength(n) == CASE n % 3 = 0 -> QUESTION_LIMIT + 1 [] n % 3 = 1 -> QUESTION_LIMIT [] OTHER -> 10
EventNameLength(n) == CASE n % 3 = 0 -> EVENT_NAME_LIMIT + 1 [] n % 3 = 1 -> EVENT_NAME_LIMIT [] OTHER -> 6

\* One row of the uploaded CSV; row is its 0-based position in the file.
CsvRow(n, kind) ==
    [row           |-> n,
     TEXT_ANSWER   |-> Str(<<"answer", n>>, IF kind = "empty" THEN 0 ELSE AnswerLength(n)),
     QUESTION      |-> Str(<<"question", n>>, QuestionLength(n)),
     EVENTNAME     |-> Str(<<"event", n>>, EventNameLength(n)),
     QUESTION_TYPE |-> IF kind = "choice" THEN "Choice" ELSE "Text",
     RESPONSEID    |-> <<"resp", n>>]

CsvFiles ==
    {[has_question_type |-> h,
      rows |-> [i \in 1 .. Len(kinds) |-> CsvRow(i - 1, kinds[i])]] :
        h \in BOOLEAN, kinds \in SeqsUpTo(RowKinds, MaxRows)}

\* The chunk messages process_csv_file builds for a file of total_rows rows
\* (ChunkMessages), and those with end_row not clipped to the number of rows.
ChunkMessagesUnclipped(total_rows) ==
    LET total_chunks == (total_rows + CHUNK_SIZE - 1) \div CHUNK_SIZE
    IN  [c \in 1 .. total_chunks |->
            [start_row    |-> (c - 1) * CHUNK_SIZE,
             end_row      |-> (c - 1) * CHUNK_SIZE + CHUNK_SIZE,
             chunk_number |-> c - 1,
             total_rows   |-> total_rows,
             total_chunks |-> total_chunks]]
ChunkMessages(total_rows) ==
    LET total_chunks == (total_rows + CHUNK_SIZE - 1) \div CHUNK_SIZE
    IN  [c \in 1 .. total_chunks |->
            [start_row    |-> (c - 1) * CHUNK_SIZE,
             end_row      |-> Min((c - 1) * CHUNK_SIZE + CHUNK_SIZE, total_rows),
             chunk_number |-> c - 1,
             total_rows   |-> total_rows,
             total_chunks |-> total_chunks]]

\* read_csv_chunk: the rows start_row .. end_row - 1 of the file.
ReadCsvChunk(rows, start_row, end_row) ==
    SubSeq(rows, start_row + 1, Min(end_row, Len(rows)))

\* The rows add_dataframe keeps: non-empty TEXT_ANSWER, QUESTION_TYPE "Text"
\* when the column exists, and at most the first max_rows of them.
TextRowsUncapped(df, has_question_type, max_rows) ==
    LET NonEmpty(r) == r.TEXT_ANSWER.len > 0
        IsText(r) == r.QUESTION_TYPE = "Text"
        answered == SelectSeq(df, NonEmpty)
    IN  IF has_question_type THEN SelectSeq(answered, IsText) ELSE answered
TextRows(df, has_question_type, max_rows) ==
    LET NonEmpty(r) == r.TEXT_ANSWER.len > 0
        IsText(r) == r.QUESTION_TYPE = "Text"
        answered == SelectSeq(df, NonEmpty)
        text_rows == IF has_question_type THEN SelectSeq(answered, IsText) ELSE answered
    IN  IF Len(text_rows) > max_rows THEN SubSeq(text_rows, 1, max_rows) ELSE text_rows

\* f"{csv_name}_{row_offset + i}", i counted from 0.
EmbeddingIdNoOffset(csv_name, row_offset, i) == <<csv_name, i>>
EmbeddingId(csv_name, row_offset, i) == <<csv_name, row_offset + i>>

WithEmbeddingIds(text_rows, csv_name, row_offset) ==
    [i \in 1 .. Len(text_rows) |->
        [row |-> text_rows[i],
         embedding_id |-> EmbeddingId(csv_name, row_offset, i - 1)]]

AllIds(text_rows) == [i \in 1 .. Len(text_rows) |-> text_rows[i].embedding_id]

IndexKeys(idx) == {v.key : v \in idx}

\* keys[i : i + size]
BatchAt(keys, i, size) == SubSeq(keys, i + 1, Min(i + size, Len(keys)))

NumBatches(n, size) == (n + size - 1) \div size

\* The keys a successful get_vectors call reports.
GetVectors(batch_keys, stored) == {k \in Range(batch_keys) : k \in stored}

\* Where the loop of _check_existing_vectors goes on after the batch at i.
AfterBatchStops(i, outcome, n) == IF outcome = "ok" THEN i + CHECK_BATCH_SIZE ELSE n
AfterBatch(i, outcome, n) == i + CHECK_BATCH_SIZE

\* _check_existing_vectors from position i on; get_outcomes[b] is how the b-th
\* get_vectors call ends.
RECURSIVE CheckExistingFrom(_, _, _, _)
CheckExistingFrom(keys, i, get_outcomes, stored) ==
    IF i >= Len(keys) THEN [existing_ids |-> {}, calls |-> <<>>]
    ELSE LET batch_keys == BatchAt(keys, i, CHECK_BATCH_SIZE)
             outcome == get_outcomes[i \div CHECK_BATCH_SIZE + 1]
             rest == CheckExistingFrom(keys, AfterBatch(i, outcome, Len(keys)), get_outcomes, stored)
         IN  [existing_ids |->
                  (IF outcome = "ok" THEN GetVectors(batch_keys, stored) ELSE {})
                      \cup rest.existing_ids,
              calls |-> <<batch_keys>> \o rest.calls]

CheckExistingVectors(keys, get_outcomes, stored) ==
    CheckExistingFrom(keys, 0, get_outcomes, stored)

CheckOutcomes(keys) ==
    [1 .. NumBatches(Len(keys), CHECK_BATCH_SIZE) -> GetOutcomes]

\* new_rows: the rows whose id the existence check did not report.
NewRowsAll(text_rows, existing_ids) == text_rows
NewRows(text_rows, existing_ids) ==
    LET IsNew(r) == r.embedding_id \notin existing_ids
    IN  SelectSeq(text_rows, IsNew)

\* The record add_dataframe appends to pending_vectors for an embedded row.
Vector(entry, uid, csv_name) ==
    [key           |-> entry.embedding_id,
     data          |-> <<"embedding", entry.row.TEXT_ANSWER>>,
     uid           |-> uid,
     text_answer   |-> Truncate(entry.row.TEXT_ANSWER, TEXT_ANSWER_LIMIT),
     question      |-> Truncate(entry.row.QUESTION, QUESTION_LIMIT),
     event_name    |-> Truncate(entry.row.EVENTNAME, EVENT_NAME_LIMIT),
     question_type |-> entry.row.QUESTION_TYPE,
     response_id   |-> entry.row.RESPONSEID,
     csv_source    |-> csv_name]

\* The position add_dataframe's loop over new_rows reaches after one row.
AfterRowAborts(pos, success, n) == IF success THEN pos + 1 ELSE n + 1
AfterRow(pos, success, n) == pos + 1

\* put_vectors: an upsert by key.
PutVectors(idx, vectors) ==
    {v \in idx : v.key \notin {w.key : w \in Range(vectors)}} \cup Range(vectors)

\* _upload_vectors: the put_vectors calls it makes, what they store, and the
\* error it raises.
UploadVectorsPerRecord(vectors, outcome) ==
    [calls  |-> [i \in 1 .. Len(vectors) |-> <<vectors[i]>>],
     stored |-> IF outcome = "ok" THEN vectors ELSE <<>>,
     raised |-> IF vectors = <<>> \/ outcome = "ok" THEN None ELSE Some(outcome)]
UploadVectors(vectors, outcome) ==
    IF vectors = <<>>
    THEN [calls |-> <<>>, stored |-> <<>>, raised |-> None]
    ELSE [calls  |-> <<vectors>>,
          stored |-> IF outcome = "ok" THEN vectors ELSE <<>>,
          raised |-> IF outcome = "ok" THEN None ELSE Some(outcome)]

\* lambda_handler: every except branch logs and re-raises.
LambdaHandlerAcks(raised) == "success"
LambdaHandler(raised) == IF raised = None THEN "success" ELSE "raised"

\* The arguments of an add_dataframe call.
NoDataframe == [df |-> <<>>, max_rows |-> DEFAULT_MAX_ROWS, row_offset |-> 0]

IdleIngester ==
    [pc |-> "idle", msg |-> None, args |-> NoDataframe,
     text_rows |-> <<>>, existing_ids |-> {},
     new_rows |-> <<>>, pos |-> 1, pending_vectors |-> <<>>,
     total_processed |-> 0, total_failed |-> 0,
     get_calls |-> <<>>, get_ok |-> TRUE, embed_calls |-> <<>>, put_calls |-> <<>>,
     put_outcomes |-> <<>>, raised |-> None, result |-> "none", after_complete |-> FALSE]

\* An invocation of the consumer that ended in success, embedded every text
\* row of chunk m and stored them.
Completed(q, m) ==
    /\ ing[q].pc = "done" /\ ing[q].msg = Some(m) /\ ing[q].result = "success"
    /\ ing[q].text_rows # <<>>
    /\ Len(ing[q].pending_vectors) = Len(ing[q].text_rows)

\* csv_upload_handler.process_csv_file: the chunk messages of the file.
ProcessCsvFile ==
    /\ chunks_sent = None
    /\ messages' = ChunkMessages(Len(csv.rows))
    /\ chunks_sent' = Some(Len(messages'))
    /\ UNCHANGED <<csv, ing>>
    /\ UNCHANGED <<searchVars, embedVars, gatewayVars, requestVars, jobVars, sendVars>>

\* embedding_consumer.lambda_handler receives a chunk message; process_csv_chunk
\* reads the chunk and add_dataframe filters the rows and names them.
Receive ==
    \E p \in Ingesters, m \in Range(messages) :
        /\ ing[p].pc = "idle"
        /\ m.start_row < m.end_row
        /\ LET df == ReadCsvChunk(csv.rows, m.start_row, m.end_row)
               text_rows == WithEmbeddingIds(
                                TextRows(df, csv.has_question_type, Len(df)),
                                CsvName, m.start_row)
           IN  ing' = [ing EXCEPT
                   ![p].msg = Some(m),
                   ![p].args = [df |-> df, max_rows |-> Len(df), row_offset |-> m.start_row],
                   ![p].text_rows = text_rows,
                   ![p].after_complete = \E q \in Ingesters \ {p} : Completed(q, m),
                   ![p].pc = IF text_rows = <<>> THEN "done" ELSE "checking",
                   ![p].result = IF text_rows = <<>> THEN LambdaHandler(None) ELSE "none"]
        /\ UNCHANGED <<csv, messages, chunks_sent>>
        /\ UNCHANGED <<searchVars, embedVars, gatewayVars, requestVars, jobVars, sendVars>>

\* A direct add_dataframe(df, csv_name, max_rows, row_offset) call on the rows
\* of the file, up to the naming of the filtered rows.
DirectCaller == 1
AddDataframe ==
    \E max_rows \in 0 .. MaxRows, row_offset \in {0, CHUNK_SIZE} :
        /\ ing[DirectCaller].pc = "idle"
        /\ LET text_rows == WithEmbeddingIds(
                                TextRows(csv.rows, csv.has_question_type, max_rows),
                                CsvName, row_offset)
           IN  ing' = [ing EXCEPT
                   ![DirectCaller].args = [df |-> csv.rows, max_rows |-> max_rows,
                                           row_offset |-> row_offset],
                   ![DirectCaller].text_rows = text_rows,
                   ![DirectCaller].pc = IF text_rows = <<>> THEN "done" ELSE "checking",
                   ![DirectCaller].result = IF text_rows = <<>> THEN "returned" ELSE "none"]
        /\ UNCHANGED <<csv, messages, chunks_sent>>
        /\ UNCHANGED <<searchVars, embedVars, gatewayVars, requestVars, jobVars, sendVars>>

\* add_dataframe: _check_existing_vectors and the filter to the new rows.
CheckExisting ==
    \E p \in Ingesters :
        /\ ing[p].pc = "checking"
        /\ \E get_outcomes \in CheckOutcomes(AllIds(ing[p].text_rows)) :
              LET checked == CheckExistingVectors(AllIds(ing[p].text_rows),
                                                  get_outcomes, IndexKeys(index))
                  new_rows == NewRows(ing[p].text_rows, checked.existing_ids)
              IN  ing' = [ing EXCEPT
                      ![p].existing_ids = checked.existing_ids,
                      ![p].get_calls = checked.calls,
                      ![p].get_ok = \A b \in DOMAIN get_outcomes : get_outcomes[b] = "ok",
                      ![p].new_rows = new_rows,
                      ![p].pc = IF new_rows = <<>> THEN "done" ELSE "embedding",
                      ![p].result = IF new_rows = <<>> THEN LambdaHandler(None) ELSE "none"]
        /\ UNCHANGED <<csv, messages, chunks_sent>>
        /\ UNCHANGED <<searchVars, embedVars, gatewayVars, requestVars, jobVars, sendVars>>

\* add_dataframe: one pass of the loop over new_rows.
EmbedRow ==
    \E p \in Ingesters :
        /\ ing[p].pc = "embedding"
        /\ LET entry == ing[p].new_rows[ing[p].pos]
               n == Len(ing[p].new_rows)
           IN  \/ \E uid \in UidDraws :
                     LET pos == AfterRow(ing[p].pos, TRUE, n)
                     IN  ing' = [ing EXCEPT
                             ![p].embed_calls =
                                 Append(@, [text_id |-> entry.embedding_id, success |-> TRUE]),
                             ![p].pending_vectors = Append(@, Vector(entry, uid, CsvName)),
                             ![p].total_processed = @ + 1,
                             ![p].pos = pos,
                             ![p].pc = IF pos > n THEN "uploading" ELSE "embedding"]
               \/ LET pos == AfterRow(ing[p].pos, FALSE, n)
                  IN  ing' = [ing EXCEPT
                          ![p].embed_calls =
                              Append(@, [text_id |-> entry.embedding_id, success |-> FALSE]),
                          ![p].total_failed = @ + 1,
                          ![p].pos = pos,
                          ![p].pc = IF pos > n THEN "uploading" ELSE "embedding"]
        /\ UNCHANGED <<csv, messages, chunks_sent>>
        /\ UNCHANGED <<searchVars, embedVars, gatewayVars, requestVars, jobVars, sendVars>>

\* add_dataframe: the loop over new_rows calls _generate_embedding_with_retry
\* for the row at pos.  The callee reads of its text only whether it is
\* missing, so an answer of positive length is handed over as the text that
\* is not.
EmbedRowCall ==
    \E p \in Ingesters :
        /\ ing[p].pc = "embedding"
        /\ epc = "idle"
        /\ LET entry == ing[p].new_rows[ing[p].pos]
           IN  text' = IF entry.row.TEXT_ANSWER.len = 0 THEN "" ELSE "great food"
        /\ epc' = "start"
        /\ attempt' = 0 /\ outcomes' = <<>> /\ sleeps' = <<>> /\ eret' = NotReturned
        /\ ing' = [ing EXCEPT ![p].pc = "retrying"]
        /\ UNCHANGED <<rate_limit_retries, invoke_calls, csv, messages, chunks_sent>>
        /\ UNCHANGED <<searchVars, gatewayVars, requestVars, jobVars, sendVars>>

\* add_dataframe: _generate_embedding_with_retry has returned (embedding,
\* success); the rest of the loop pass.
EmbedRowReturn ==
    \E p \in Ingesters :
        /\ ing[p].pc = "retrying"
        /\ epc = "done"
        /\ LET entry == ing[p].new_rows[ing[p].pos]
               n == Len(ing[p].new_rows)
               success == eret.vector # "None" /\ eret.ok
               pos == AfterRow(ing[p].pos, success, n)
               call == [text_id |-> entry.embedding_id, success |-> success]
           IN  IF success
               THEN \E uid \in UidDraws :
                       ing' = [ing EXCEPT
                           ![p].embed_calls = Append(@, call),
                           ![p].pending_vectors = Append(@, Vector(entry, uid, CsvName)),
                           ![p].total_processed = @ + 1,
                           ![p].pos = pos,
                           ![p].pc = IF pos > n THEN "uploading" ELSE "embedding"]
               ELSE ing' = [ing EXCEPT
                       ![p].embed_calls = Append(@, call),
                       ![p].total_failed = @ + 1,
                       ![p].pos = pos,
                       ![p].pc = IF pos > n THEN "uploading" ELSE "embedding"]
        /\ text' = "" /\ attempt' = 0 /\ epc' = "idle" /\ outcomes' = <<>>
        /\ sleeps' = <<>> /\ eret' = NotReturned
        /\ UNCHANGED <<rate_limit_retries, invoke_calls, csv, messages, chunks_sent>>
        /\ UNCHANGED <<searchVars, gatewayVars, requestVars, jobVars, sendVars>>

\* add_dataframe: _upload_vectors(pending_vectors), and what lambda_handler
\* makes of its end.
Upload ==
    \E p \in Ingesters :
        /\ ing[p].pc = "uploading"
        /\ \E outcome \in (IF ing[p].pending_vectors = <<>> THEN {"ok"} ELSE PutOutcomes) :
              LET up == UploadVectors(ing[p].pending_vectors, outcome)
              IN  /\ index' = PutVectors(index, up.stored)
                  /\ ing' = [ing EXCEPT
                         ![p].put_calls = up.calls,
                         ![p].put_outcomes = [c \in DOMAIN up.calls |-> outcome],
                         ![p].raised = up.raised,
                         ![p].result = LambdaHandler(up.raised),
                         ![p].pc = "done"]
        /\ UNCHANGED <<csv, messages, chunks_sent>>
        /\ UNCHANGED <<sessionVars, embedVars, gatewayVars, requestVars, jobVars, sendVars>>

IngestIdle ==
    /\ csv = [has_question_type |-> TRUE, rows |-> <<>>]
    /\ messages = <<>> /\ chunks_sent = None
    /\ ing = [p \in Ingesters |-> IdleIngester]

---------------------------------------------------------------------------
(* One call of the index gateway: _check_existing_vectors or _upload_vectors *)

GatewayKey(i) == <<CsvName, i - 1>>
GatewayKeys(n) == [i \in 1 .. n |-> GatewayKey(i)]
GatewayVector(i) == [key |-> GatewayKey(i), data |-> <<"embedding", "great food">>]
GatewayVectors(n) == [i \in 1 .. n |-> GatewayVector(i)]
UploadSizes == {0, 1, DEFAULT_MAX_ROWS \div 2, DEFAULT_MAX_ROWS \div 2 + 1, DEFAULT_MAX_ROWS}
\* What the index holds when the gateway is called: nothing, every third key
\* or every key.
StoredPatterns == {0, 3, 1}
StoredVectors(pattern) ==
    IF pattern = 0 THEN {}
    ELSE {GatewayVector(i) : i \in {j \in 1 .. MaxKeys : j % pattern = 0}}

DeleteOutcomes == {"ok", "NotFound", "error"}
DeleteCounts == {0, 1, DELETE_BATCH_SIZE, DELETE_BATCH_SIZE + 1, DEFAULT_MAX_COUNT,
                 DEFAULT_MAX_COUNT + 1}

\* Where the loop of delete_all_vectors goes on after the batch at i: the
\* except branch ends in break for every exception.
AfterDeleteContinues(i, outcome, n) == i + DELETE_BATCH_SIZE
AfterDelete(i, outcome, n) == IF outcome = "ok" THEN i + DELETE_BATCH_SIZE ELSE n

\* delete_all_vectors from position i on; del_outcomes[b] is how the b-th
\* delete_vectors call ends.
RECURSIVE DeleteFrom(_, _, _)
DeleteFrom(keys, i, del_outcomes) ==
    IF i >= Len(keys) THEN [calls |-> <<>>, answers |-> <<>>, total_deleted |-> 0, removed |-> {}]
    ELSE LET batch_keys == BatchAt(keys, i, DELETE_BATCH_SIZE)
             outcome == del_outcomes[i \div DELETE_BATCH_SIZE + 1]
             rest == DeleteFrom(keys, AfterDelete(i, outcome, Len(keys)), del_outcomes)
         IN  [calls |-> <<batch_keys>> \o rest.calls,
              answers |-> <<outcome>> \o rest.answers,
              total_deleted |-> (IF outcome = "ok" THEN Len(batch_keys) ELSE 0)
                                    + rest.total_deleted,
              removed |-> (IF outcome = "ok" THEN Range(batch_keys) ELSE {})
                              \cup rest.removed]

\* keys_to_delete and the whole of delete_all_vectors(csv_name, max_count).
DeleteAllVectors(max_count, del_outcomes) ==
    DeleteFrom(GatewayKeys(max_count), 0, del_outcomes)

\* The arguments of one EmbeddingStore.search call.
FilterFields == {"event_name", "csv_source"}
FilterValues == {"", "eventA", "eventB"}
FilterMaps ==
    {<<>>}
        \cup {<<<<k, v>>>> : k \in FilterFields, v \in FilterValues}
        \cup {<<<<k1, v1>>, <<k2, v2>>>> :
                 k1 \in FilterFields, k2 \in FilterFields,
                 v1 \in FilterValues, v2 \in FilterValues}
ExcludeLists == {None, Some(<<>>), Some(<<"a">>), Some(<<"a", "b">>)}
SearchArgs ==
    {a \in [query : {"", "great food"}, top_k : TopKValues, filters : FilterMaps,
            exclude_uids : ExcludeLists] :
        \A i, j \in DOMAIN a.filters : i # j => a.filters[i][1] # a.filters[j][1]}
NoArgs == [query |-> "", top_k |-> DEFAULT_TOP_K, filters |-> <<>>, exclude_uids |-> None]

NoCall == [op |-> "none", pc |-> "idle", keys |-> <<>>, vectors |-> <<>>,
           args |-> NoArgs, failed |-> "none", df |-> <<>>,
           total_deleted |-> 0,
           outcomes |-> <<>>, calls |-> <<>>, existing_ids |-> {},
           uploaded |-> 0, raised |-> None]

GatewayCheck ==
    /\ gw.op = "check" /\ gw.pc = "start"
    /\ \E get_outcomes \in CheckOutcomes(gw.keys) :
          LET checked == CheckExistingVectors(gw.keys, get_outcomes, IndexKeys(index))
          IN  gw' = [gw EXCEPT !.pc = "done", !.outcomes = get_outcomes,
                                !.calls = checked.calls,
                                !.existing_ids = checked.existing_ids]
    /\ UNCHANGED <<searchVars, embedVars, ingestVars, requestVars, jobVars, sendVars>>

GatewayUpload ==
    /\ gw.op = "upload" /\ gw.pc = "start"
    /\ \E outcome \in (IF gw.vectors = <<>> THEN {"ok"} ELSE PutOutcomes) :
          LET up == UploadVectors(gw.vectors, outcome)
          IN  /\ index' = PutVectors(index, up.stored)
              /\ gw' = [gw EXCEPT !.pc = "done", !.outcomes = <<outcome>>,
                                  !.calls = up.calls,
                                  !.uploaded = Len(up.stored),
                                  !.raised = up.raised]
    /\ UNCHANGED <<sessionVars, embedVars, ingestVars, requestVars, jobVars, sendVars>>

GatewayDelete ==
    /\ gw.op = "delete" /\ gw.pc = "start"
    /\ \E del_outcomes \in [1 .. NumBatches(Len(gw.keys), DELETE_BATCH_SIZE) -> DeleteOutcomes] :
          LET deleted == DeleteAllVectors(Len(gw.keys), del_outcomes)
          IN  /\ index' = {v \in index : v.key \notin deleted.removed}
              /\ gw' = [gw EXCEPT !.pc = "done", !.outcomes = deleted.answers,
                                  !.calls = deleted.calls,
                                  !.total_deleted = deleted.total_deleted]
    /\ UNCHANGED <<sessionVars, embedVars, ingestVars, requestVars, jobVars, sendVars>>

\* One EmbeddingStore.search call: generate_embedding, the filter, and
\* query_vectors.
GatewaySearch ==
    /\ gw.op = "search" /\ gw.pc = "start"
    /\ LET params == QueryParams(gw.args.top_k, gw.args.filters, gw.args.exclude_uids)
       IN  \/ \* invoke_model raises inside generate_embedding: not caught
              /\ gw.args.query # ""
              /\ gw' = [gw EXCEPT !.pc = "done", !.failed = "embedding",
                                  !.raised = Some("Exception")]
           \/ \* query_vectors raises: caught, empty DataFrame
              gw' = [gw EXCEPT !.pc = "done", !.failed = "index", !.calls = <<params>>]
           \/ \E vectors \in QueryVectors(1, params) :
                 gw' = [gw EXCEPT !.pc = "done", !.calls = <<params>>,
                                  !.df = SearchResult(vectors)]
    /\ UNCHANGED <<searchVars, embedVars, ingestVars, requestVars, jobVars, sendVars>>

---------------------------------------------------------------------------
(* Two requests on one process: run_query_with_citations *)

\* The requests that run interleaved on the module-level agent and
\* embedding store.
Requests == {1, 2}

\* What the rewrite capability hands back to a request.
RequestQueryLists == {<<"great food">>, <<"great food", "great food">>}

\* The list object behind deps.search_results of request r: one list for all
\* AnalystAgentDeps objects.
SearchResultsOfShared(r) == 1

\* The list object behind deps.search_results of request r: deps is built per
\* request and default_factory gives every AnalystAgentDeps its own list.
SearchResultsOf(r) == r

\* The locals of a multi_query_search invocation before its first statement.
NewInvocation ==
    [pc |-> "expanding", queries |-> <<>>, qi |-> 1, seen_uids |-> <<>>,
     all_dfs |-> <<>>, successful_queries |-> 0, calls |-> <<>>]

IdleRequest == [NewInvocation EXCEPT !.pc = "idle"]

RequestsIdle ==
    /\ requests = [r \in Requests |-> IdleRequest]
    /\ deps_search_results = [l \in Requests |-> <<>>]

\* query_agent.run_sync returns the query list of request r.
RequestRewrite(r) ==
    /\ requests[r].pc = "expanding"
    /\ \E qs \in RequestQueryLists :
          requests' = [requests EXCEPT ![r].queries = qs, ![r].pc = "searching"]
    /\ UNCHANGED <<deps_search_results>>
    /\ UNCHANGED <<searchVars, embedVars, ingestVars, gatewayVars, jobVars, sendVars>>

\* A loop pass of request r that calls embedding_store.search.
RequestSearch(r) ==
    LET inv == requests[r]
    IN  /\ inv.pc = "searching"
        /\ inv.qi <= Len(inv.queries)
        /\ LET exclude_uids == ExcludeArg(inv.seen_uids)
               params == QueryParams(DEFAULT_TOP_K, <<>>, exclude_uids)
           IN  \E vectors \in QueryVectors(inv.qi, params) :
                  LET results_df == SearchResult(vectors)
                      call == [exclude_uids |-> exclude_uids, df |-> results_df]
                  IN  requests' =
                         [requests EXCEPT
                            ![r].calls = Append(@, call),
                            ![r].qi = @ + 1,
                            ![r].seen_uids = IF results_df # <<>>
                                             THEN ExtendSeen(@, results_df) ELSE @,
                            ![r].all_dfs = IF results_df # <<>>
                                           THEN Append(@, results_df) ELSE @,
                            ![r].successful_queries = IF results_df # <<>>
                                                      THEN @ + 1 ELSE @]
        /\ UNCHANGED <<deps_search_results>>
        /\ UNCHANGED <<searchVars, embedVars, ingestVars, gatewayVars, jobVars, sendVars>>

\* After the loop of request r: merge, threshold, format, store in the deps
\* of the request.
RequestMerge(r) ==
    LET inv == requests[r]
    IN  /\ inv.pc = "searching"
        /\ inv.qi > Len(inv.queries)
        /\ requests' = [requests EXCEPT ![r].pc = "done"]
        /\ IF inv.all_dfs = <<>>
           THEN UNCHANGED deps_search_results
           ELSE \E sorted \in SortValues(Concat(inv.all_dfs)) :
                   LET combined_df == ThresholdFilter(sorted)
                   IN  IF combined_df = <<>>
                       THEN UNCHANGED deps_search_results
                       ELSE \E ids \in [1 .. Len(combined_df) -> CitationIds] :
                               deps_search_results' =
                                  [deps_search_results EXCEPT
                                     ![SearchResultsOf(r)] =
                                        Append(@, WithIds(combined_df, ids))]
        /\ UNCHANGED <<searchVars, embedVars, ingestVars, gatewayVars, jobVars, sendVars>>

---------------------------------------------------------------------------
(* The job lifecycle: job_initiator, JobService and the survey_agent handler *)

MAX_RETRIES == 1

\* The requests the job initiator receives.
Initiations == {1, 2}

\* The X-Idempotency-Key header of a request: absent or a key.
IdempotencyKeys == {None, Some("k1")}

\* How a call on the job table ends: done, or a ClientError.
TableOutcomes == {"ok", "ClientError"}

\* How lambda_client.invoke ends.
InvokeOutcomes == {"ok", "error"}

\* How the try block of _handle_async_job ends: at its last statement, or
\* in an exception of the query, an upload or the completion.
AttemptOutcomes == {"ok", "error"}

\* str(uuid.uuid4()) drawn for request r.
JobId(r) == r

NoItem ==
    [present |-> FALSE, status |-> "none", idempotencyKey |-> None, retryCount |-> 0]

\* The item create_job puts.
NewItem(idempotency_key) ==
    [present |-> TRUE, status |-> "PENDING", idempotencyKey |-> idempotency_key,
     retryCount |-> 0]

\* The jobs the scan of _get_by_idempotency_key can return.
MatchingJobs(table, idempotency_key) ==
    {j \in DOMAIN table : table[j].present /\ table[j].idempotencyKey = idempotency_key}

\* What create_job gets from _get_by_idempotency_key: the call is skipped
\* without a key and a ClientError of the scan gives None.
GetByIdempotencyKey(table, idempotency_key, outcome) ==
    IF idempotency_key = None \/ outcome # "ok" THEN {}
    ELSE MatchingJobs(table, idempotency_key)

\* update_item: SET #status = :status; a ClientError is logged and swallowed.
UpdateStatus(table, job_id, status, outcome) ==
    IF outcome = "ok" THEN [table EXCEPT ![job_id].status = status] ELSE table

\* An asynchronous invocation of the agent handler with its payload.
Invocation(job_id, retry_count, origin) ==
    [job_id |-> job_id, retry_count |-> retry_count, origin |-> origin,
     pc |-> "queued", attempt |-> "none", mark |-> "none",
     reinvoked |-> FALSE, raised |-> FALSE]

\* lambda_client.invoke(InvocationType="Event"): the event is queued unless
\* the call fails.
Invoke(calls, job_id, retry_count, origin, outcome) ==
    IF outcome = "ok" THEN Append(calls, Invocation(job_id, retry_count, origin))
    ELSE calls

\* if retry_count < MAX_RETRIES
ShouldRetryOnceMore(retry_count) == retry_count <= MAX_RETRIES
ShouldRetry(retry_count) == retry_count < MAX_RETRIES

IdleInitiator ==
    [pc |-> "idle", idempotency_key |-> None, job_id |-> 0, status_code |-> 0]

JobsIdle ==
    /\ job_table = [j \in Initiations |-> NoItem]
    /\ initiators = [r \in Initiations |-> IdleInitiator]
    /\ agent_calls = <<>>

\* job_initiator.lambda_handler after create_job has returned the job: the
\* asynchronous invocation of the agent and the response.
Respond(r, job_id) ==
    \E outcome \in InvokeOutcomes :
        /\ agent_calls' = Invoke(agent_calls, job_id, 0, r, outcome)
        /\ initiators' = [initiators EXCEPT
               ![r].pc = "done",
               ![r].job_id = job_id,
               ![r].status_code = IF outcome = "ok" THEN 202 ELSE 500]

\* create_job up to the idempotency check; when the scan finds a job,
\* create_job returns it and the handler goes on with it.
CreateJobLookup ==
    \E r \in Initiations :
        /\ initiators[r].pc = "start"
        /\ \E outcome \in TableOutcomes :
              LET existing == GetByIdempotencyKey(job_table, initiators[r].idempotency_key,
                                                  outcome)
              IN  IF existing # {}
                  THEN \E j \in existing : Respond(r, j)
                  ELSE /\ initiators' = [initiators EXCEPT ![r].pc = "creating"]
                       /\ UNCHANGED agent_calls
        /\ UNCHANGED job_table
        /\ UNCHANGED <<searchVars, embedVars, ingestVars, gatewayVars, requestVars,
                   sendVars>>

\* create_job from the uuid draw on: put_item, and the rest of the handler.
CreateJobPut ==
    \E r \in Initiations :
        /\ initiators[r].pc = "creating"
        /\ \/ \* put_item raises: the handler answers 500
              /\ initiators' = [initiators EXCEPT ![r].pc = "done", ![r].status_code = 500]
              /\ UNCHANGED <<job_table, agent_calls>>
           \/ /\ job_table' = [job_table EXCEPT
                     ![JobId(r)] = NewItem(initiators[r].idempotency_key)]
              /\ Respond(r, JobId(r))
        /\ UNCHANGED <<searchVars, embedVars, ingestVars, gatewayVars, requestVars,
                   sendVars>>

\* _handle_async_job: update_status(job_id, PROCESSING).
AgentStart ==
    \E i \in DOMAIN agent_calls :
        /\ agent_calls[i].pc = "queued"
        /\ \E outcome \in TableOutcomes :
              job_table' = UpdateStatus(job_table, agent_calls[i].job_id,
                                        "PROCESSING", outcome)
        /\ agent_calls' = [agent_calls EXCEPT ![i].pc = "processing"]
        /\ UNCHANGED initiators
        /\ UNCHANGED <<searchVars, embedVars, ingestVars, gatewayVars, requestVars,
                   sendVars>>

\* _handle_async_job: the try block and the except branch.
AgentFinish ==
    \E i \in DOMAIN agent_calls :
        LET call == agent_calls[i]
        IN  /\ call.pc = "processing"
            /\ \/ \* the try block ends in complete_job
                  /\ \E outcome \in TableOutcomes :
                        job_table' = UpdateStatus(job_table, call.job_id,
                                                  "COMPLETED", outcome)
                  /\ agent_calls' = [agent_calls EXCEPT
                         ![i].pc = "ended", ![i].attempt = "ok", ![i].mark = "complete"]
               \/ \* an exception in the try block
                  IF ShouldRetry(call.retry_count)
                  THEN /\ \E outcome \in InvokeOutcomes :
                             agent_calls' =
                                [Invoke(agent_calls, call.job_id, call.retry_count + 1,
                                        call.origin, outcome)
                                   EXCEPT ![i].pc = "ended", ![i].attempt = "error",
                                          ![i].reinvoked = (outcome = "ok"),
                                          ![i].raised = (outcome # "ok")]
                       /\ UNCHANGED job_table
                  ELSE /\ \E outcome \in TableOutcomes :
                             job_table' = UpdateStatus(job_table, call.job_id,
                                                       "FAILED", outcome)
                       /\ agent_calls' = [agent_calls EXCEPT
                              ![i].pc = "ended", ![i].attempt = "error",
                              ![i].mark = "fail"]
            /\ UNCHANGED initiators
            /\ UNCHANGED <<searchVars, embedVars, ingestVars, gatewayVars, requestVars,
                   sendVars>>

----------------------------------------------------------------------------
(* csv_upload_handler.send_messages_to_sqs *)

\* What sqs_client.send_message_batch does with a batch: it accepts every
\* entry, reports entries under "Failed", or raises.
SendOutcomes == {"ok", "failed", "exception"}

\* The message lists process_csv_file hands over: a file's chunk messages.
MessageLists == {ChunkMessages(n * CHUNK_SIZE) : n \in 1 .. MaxMessages}

\* The entry made of a message; uuid4 gives each entry an Id of its own.
Entry(i, msg) == [Id |-> i, MessageBody |-> msg]

IdleSender ==
    [pc |-> "idle", messages |-> <<>>, i |-> 1, batch |-> <<>>, total_sent |-> 0,
     batch_number |-> 1, calls |-> <<>>, result |-> None]

\* The test that makes the loop send the batch.
BatchFullLate(batch) == Len(batch) = SQS_BATCH_SIZE + 1
BatchFull(batch) == Len(batch) = SQS_BATCH_SIZE

\* send_batch and the statements after it: the call is recorded with its
\* outcome; a batch with failed entries and an exception both leave
\* send_messages_to_sqs by an exception.
SendBatch(state, batch, outcome, last) ==
    LET called == [state EXCEPT !.calls = Append(@, [Entries |-> batch, outcome |-> outcome])]
    IN  IF outcome # "ok"
        THEN [called EXCEPT !.pc = "raised", !.batch = batch]
        ELSE [called EXCEPT !.total_sent = @ + Len(batch),
                            !.batch = <<>>,
                            !.batch_number = IF last THEN @ ELSE @ + 1,
                            !.pc = IF last THEN "returned" ELSE "looping",
                            !.result = IF last THEN Some(state.total_sent + Len(batch))
                                       ELSE None]

\* A pass of the loop that only appends the entry.
AppendEntry ==
    /\ sender.pc = "looping"
    /\ sender.i <= Len(sender.messages)
    /\ LET batch == Append(sender.batch, Entry(sender.i, sender.messages[sender.i]))
       IN  /\ ~BatchFull(batch)
           /\ sender' = [sender EXCEPT !.batch = batch, !.i = @ + 1]
    /\ UNCHANGED <<searchVars, embedVars, ingestVars, gatewayVars, requestVars, jobVars>>

\* A pass of the loop that fills the batch and sends it.
AppendAndSend ==
    /\ sender.pc = "looping"
    /\ sender.i <= Len(sender.messages)
    /\ LET batch == Append(sender.batch, Entry(sender.i, sender.messages[sender.i]))
       IN  /\ BatchFull(batch)
           /\ \E outcome \in SendOutcomes :
                 sender' = SendBatch([sender EXCEPT !.i = @ + 1], batch, outcome, FALSE)
    /\ UNCHANGED <<searchVars, embedVars, ingestVars, gatewayVars, requestVars, jobVars>>

\* After the loop: the remaining entries are sent, if there are any, and
\* total_sent is returned.
SendRemaining ==
    /\ sender.pc = "looping"
    /\ sender.i > Len(sender.messages)
    /\ IF sender.batch # <<>>
       THEN \E outcome \in SendOutcomes :
               sender' = SendBatch(sender, sender.batch, outcome, TRUE)
       ELSE sender' = [sender EXCEPT !.pc = "returned", !.result = Some(sender.total_sent)]
    /\ UNCHANGED <<searchVars, embedVars, ingestVars, gatewayVars, requestVars, jobVars>>

---------------------------------------------------------------------------
(* Idle components *)

GatewayIdle == gw = NoCall

SendIdle == sender = IdleSender

EmbedIdle ==
    /\ text = "" /\ rate_limit_retries = DEFAULT_RETRIES /\ attempt = 0
    /\ epc = "idle" /\ outcomes = <<>> /\ sleeps = <<>>
    /\ eret = NotReturned /\ invoke_calls = 0

SessionIdle ==
    /\ top_k_per_query = DEFAULT_TOP_K /\ pc = "idle" /\ queries = <<>>
    /\ qi = 1 /\ seen_uids = <<>> /\ all_dfs = <<>> /\ successful_queries = 0
    /\ search_results = <<>> /\ ret = [kind |-> "none", message |-> ""]
    /\ rewriteCalls = 0 /\ searchCalls = <<>> /\ indexCalls = <<>>
    /\ rewriteOutcome = "none" /\ output = NoOutput /\ cited = <<>>
    /\ response = NoResponse

SearchIdle == index = {} /\ SessionIdle

---------------------------------------------------------------------------
(* The retrieval session *)

Init ==
    /\ index \in IndexContents
    /\ top_k_per_query \in TopKValues
    /\ pc = "expanding"
    /\ queries = <<>>
    /\ qi = 1
    /\ seen_uids = <<>>
    /\ all_dfs = <<>>
    /\ successful_queries = 0
    /\ search_results = <<>>
    /\ ret = [kind |-> "none", message |-> ""]
    /\ rewriteCalls = 0
    /\ searchCalls = <<>>
    /\ indexCalls = <<>>
    /\ rewriteOutcome = "none"
    /\ output = NoOutput
    /\ cited = <<>>
    /\ response = NoResponse
    /\ EmbedIdle
    /\ IngestIdle
    /\ GatewayIdle
    /\ RequestsIdle
    /\ JobsIdle
    /\ SendIdle

Next ==
    \/ Rewrite
    \/ SkipEntry
    \/ SearchQuery
    \/ Merge
    \/ Resolve

Spec == Init /\ [][Next]_vars

\* A run of the agent in which the tool may be called more than once.
NextRun ==
    \/ Next
    \/ Reinvoke

SpecRun == Init /\ [][NextRun]_vars

---------------------------------------------------------------------------
(* One _generate_embedding_with_retry call *)

InitEmbed ==
    /\ text \in TextValues
    /\ rate_limit_retries \in 0 .. MaxAttempts
    /\ attempt = 0
    /\ epc = "start"
    /\ outcomes = <<>>
    /\ sleeps = <<>>
    /\ eret = NotReturned
    /\ invoke_calls = 0
    /\ SearchIdle
    /\ IngestIdle
    /\ GatewayIdle
    /\ RequestsIdle
    /\ JobsIdle
    /\ SendIdle

NextEmbed ==
    \/ EmbedStart
    \/ InvokeModel

SpecEmbed == InitEmbed /\ [][NextEmbed]_vars

---------------------------------------------------------------------------
(* The upload of one CSV and two concurrent consumer invocations *)

InitIngest ==
    /\ csv \in CsvFiles
    /\ messages = <<>>
    /\ chunks_sent = None
    /\ ing = [p \in Ingesters |-> IdleIngester]
    /\ SearchIdle
    /\ EmbedIdle
    /\ GatewayIdle
    /\ RequestsIdle
    /\ JobsIdle
    /\ SendIdle

NextIngest ==
    \/ ProcessCsvFile
    \/ Receive
    \/ CheckExisting
    \/ EmbedRow
    \/ Upload

SpecIngest == InitIngest /\ [][NextIngest]_vars

---------------------------------------------------------------------------
(* One resolve_citations call *)

UnknownId == "nope1"
ThemeNames == {"pricing", "food"}

\* The rows of a session table: hits with the ids given to them.
TableRows ==
    {WithIds(<<HitRow([metadata |-> VectorRecord(k, "a"), distance |-> Distance(1, VectorRecord(k, "a"))])>>,
             <<id>>)[1] : k \in Keys, id \in CitationIds}

\* Session tables of up to two rows; two rows may carry the same id.
Tables ==
    {t \in SeqsUpTo(TableRows, 2) :
        \A i, j \in DOMAIN t : i # j => t[i].response_id # t[j].response_id
                                          \/ t[i].text_answer # t[j].text_answer}

Themes ==
    [name : ThemeNames, supporting_citations : SeqsUpTo(CitationIds \cup {UnknownId}, 2)]

\* Analysis outputs of up to two themes with different names.
AnalysisOutputs ==
    {[themes |-> ts] : ts \in {t \in SeqsUpTo(Themes, 2) :
                                  \A i, j \in DOMAIN t : i # j => t[i].name # t[j].name}}

ResolveCall ==
    /\ pc = "done"
    /\ cited' = ResolveCitations(output, Concat(search_results))
    /\ response' = EnrichedResponse(output, Concat(search_results))
    /\ pc' = "resolved"
    /\ UNCHANGED <<index, top_k_per_query, queries, qi, seen_uids, all_dfs,
                   successful_queries, search_results, ret, rewriteCalls,
                   searchCalls, indexCalls, rewriteOutcome, output>>
    /\ UNCHANGED <<embedVars, ingestVars, gatewayVars, requestVars, jobVars, sendVars>>

InitResolve ==
    /\ \E table \in Tables : search_results = <<table>>
    /\ output \in AnalysisOutputs
    /\ pc = "done"
    /\ index = {} /\ top_k_per_query = DEFAULT_TOP_K /\ queries = <<>>
    /\ qi = 1 /\ seen_uids = <<>> /\ all_dfs = <<>> /\ successful_queries = 0
    /\ ret = [kind |-> "none", message |-> ""]
    /\ rewriteCalls = 0 /\ searchCalls = <<>> /\ indexCalls = <<>>
    /\ rewriteOutcome = "none" /\ cited = <<>> /\ response = NoResponse
    /\ EmbedIdle
    /\ IngestIdle
    /\ GatewayIdle
    /\ RequestsIdle
    /\ JobsIdle
    /\ SendIdle

NextResolve == ResolveCall

SpecResolve == InitResolve /\ [][NextResolve]_vars

---------------------------------------------------------------------------
(* One direct add_dataframe call on the rows of a file *)

InitAddDataframe == InitIngest

NextAddDataframe ==
    \/ AddDataframe
    \/ CheckExisting
    \/ EmbedRow
    \/ Upload

SpecAddDataframe == InitAddDataframe /\ [][NextAddDataframe]_vars

---------------------------------------------------------------------------
(* One call of the index gateway *)

InitGateway ==
    /\ \/ /\ \E pattern \in StoredPatterns : index = StoredVectors(pattern)
          /\ \/ \E n \in 0 .. MaxKeys :
                   gw = [NoCall EXCEPT !.op = "check", !.pc = "start",
                                       !.keys = GatewayKeys(n)]
             \/ \E n \in UploadSizes :
                   gw = [NoCall EXCEPT !.op = "upload", !.pc = "start",
                                       !.vectors = GatewayVectors(n)]
             \/ \E max_count \in DeleteCounts :
                   gw = [NoCall EXCEPT !.op = "delete", !.pc = "start",
                                       !.keys = GatewayKeys(max_count)]
       \/ /\ index \in IndexContents
          /\ \E args \in SearchArgs :
                gw = [NoCall EXCEPT !.op = "search", !.pc = "start", !.args = args]
    /\ SessionIdle
    /\ EmbedIdle
    /\ IngestIdle
    /\ RequestsIdle
    /\ JobsIdle
    /\ SendIdle

NextGateway ==
    \/ GatewayCheck
    \/ GatewayUpload
    \/ GatewayDelete
    \/ GatewaySearch

SpecGateway == InitGateway /\ [][NextGateway]_vars

---------------------------------------------------------------------------
(* Properties of the retrieval session *)

NoDuplicates(seq) == \A i, j \in DOMAIN seq : i # j => seq[i] # seq[j]

Finished == pc \in {"done", "resolved"}

\* The uids of the hits the searches before the j-th search call returned.
RECURSIVE ReturnedBefore(_)
ReturnedBefore(j) ==
    IF j <= 1 THEN <<>>
    ELSE ReturnedBefore(j - 1) \o UidList(searchCalls[j - 1].df)

\* The table the invocation stored, empty when it stored none.
StoredTable == IF search_results = <<>> THEN <<>> ELSE search_results[Len(search_results)]

WithoutId(row) ==
    [uid |-> row.uid, similarity_score |-> row.similarity_score,
     text_answer |-> row.text_answer, question |-> row.question,
     event_name |-> row.event_name, response_id |-> row.response_id,
     csv_source |-> row.csv_source]

Count(seq, x) == Cardinality({i \in DOMAIN seq : seq[i] = x})

\* C1: the hits accumulated for one searched query share no uid with the hits
\* accumulated for an earlier query of the invocation, and the concatenated
\* hit table holds no uid twice, whatever uids the stored records carry.
C1_Novelty ==
    /\ \A i, j \in DOMAIN all_dfs :
          i < j => Range(UidList(all_dfs[i])) \cap Range(UidList(all_dfs[j])) = {}
    /\ NoDuplicates(UidList(Concat(all_dfs)))

\* C2: every search is sent exactly the uids of the hits the earlier searches
\* of the invocation returned, in the order they were returned, and no
\* exclusion while there are none; the seen-uid list starts empty and only
\* ever grows at its end.
C2_ExclusionIsSeen ==
    /\ seen_uids = <<>>
    /\ [](\A j \in DOMAIN searchCalls :
            /\ searchCalls[j].call.exclude_uids =
                  (IF ReturnedBefore(j) = <<>> THEN None ELSE Some(ReturnedBefore(j)))
            /\ seen_uids = ReturnedBefore(Len(searchCalls) + 1))
    /\ [](\A k \in DOMAIN indexCalls :
            \/ indexCalls[k].filter = NoFilter
            \/ /\ indexCalls[k].filter.op = "nin"
               /\ indexCalls[k].filter.field = "uid"
               /\ indexCalls[k].filter.values # <<>>)
    /\ [][/\ Len(seen_uids') >= Len(seen_uids)
          /\ SubSeq(seen_uids', 1, Len(seen_uids)) = seen_uids]_vars

C2_Witness ==
    /\ Len(searchCalls) = 2
    /\ searchCalls[1].df # <<>>
    /\ searchCalls[2].call.exclude_uids = Some(UidList(searchCalls[1].df))
    /\ searchCalls[2].df # <<>>
    /\ Len(seen_uids) > Len(searchCalls[2].call.exclude_uids[1])

\* C3: no two rows of a hit table stored in the session carry the same
\* citation id.
C3_UniqueCitationIds ==
    \A t \in DOMAIN search_results :
        NoDuplicates([i \in DOMAIN search_results[t] |-> search_results[t][i].id])

\* C4: resolving a theme that cites the citation id of a row of the stored
\* table gives a record with the response_text, response_id and survey_id of
\* that same row.
C4_RoundTrip ==
    pc = "resolved" =>
        \A t \in DOMAIN output.themes :
            \A c \in DOMAIN output.themes[t].supporting_citations :
                \A r \in DOMAIN StoredTable :
                    StoredTable[r].id = output.themes[t].supporting_citations[c] =>
                        \E k \in DOMAIN cited :
                            /\ cited[k].response_text = StoredTable[r].text_answer
                            /\ cited[k].response_id = StoredTable[r].response_id
                            /\ cited[k].survey_id = StoredTable[r].csv_source

\* C5: every row of the stored hit table and every hit line of the returned
\* block has similarity_score >= 0.15; of the hits the searches returned, the
\* stored rows are exactly those scoring 0.15 or more (a hit scoring exactly
\* 0.15 is kept, a hit scoring less is removed).
C5_ThresholdLaw ==
    /\ \A t \in DOMAIN search_results : \A i \in DOMAIN search_results[t] :
          search_results[t][i].similarity_score >= THRESHOLD
    /\ ret.kind = "block" =>
          /\ Len(ret.lines) = Len(StoredTable)
          /\ \A i \in DOMAIN ret.lines :
                /\ ret.lines[i].id = StoredTable[i].id
                /\ ret.lines[i].text_answer = StoredTable[i].text_answer
                /\ StoredTable[i].similarity_score >= THRESHOLD
    /\ (Finished /\ ret.kind = "block") =>
          LET hits == Concat(all_dfs)
              kept == [i \in DOMAIN StoredTable |-> WithoutId(StoredTable[i])]
          IN  \A h \in Range(hits) :
                 Count(kept, h) =
                    (IF h.similarity_score >= THRESHOLD THEN Count(hits, h) ELSE 0)

C5_Witness ==
    /\ pc = "done"
    /\ \E i \in DOMAIN StoredTable : StoredTable[i].similarity_score = THRESHOLD
    /\ \E h \in Range(Concat(all_dfs)) : h.similarity_score = THRESHOLD - 1
    /\ ret.kind = "block"

\* The hits the search calls of the invocation returned.
HitsReturned == ReturnedBefore(Len(searchCalls) + 1)
ScoresReturned ==
    UNION {{searchCalls[j].df[i].similarity_score : i \in DOMAIN searchCalls[j].df} :
              j \in DOMAIN searchCalls}

\* C6: an invocation that got as far as searching returns the no-results
\* message exactly when no search returned a hit, the below-threshold message
\* exactly when a hit was returned but none scores 0.15 or more, and stores
\* nothing in both cases; in every other case it returns a formatted block
\* and stores one table.
C6_Messages ==
    (Finished /\ rewriteOutcome = "returned" /\ queries # <<>>) =>
        /\ ret = Message(NO_MATCH_MSG) <=> HitsReturned = <<>>
        /\ ret = Message(THRESHOLD_MSG) <=>
              (HitsReturned # <<>> /\ \A x \in ScoresReturned : x < THRESHOLD)
        /\ ret.kind = "message" => search_results = <<>>
        /\ ret.kind # "message" =>
              /\ ret.kind = "block"
              /\ Len(search_results) = 1
              /\ ret.total_unique = Len(search_results[1])

C6_Witness ==
    /\ pc = "done"
    /\ ret = Message(THRESHOLD_MSG)
    /\ HitsReturned # <<>>
    /\ search_results = <<>>

\* C7: when the rewrite fails or yields an empty query list, no search is
\* issued, nothing is stored, the rewrite is not retried, and the caller gets
\* a user-facing error message instead of an exception.
C7_RewriteFailureMessage ==
    (Finished /\ (rewriteOutcome = "raised" \/ queries = <<>>)) =>
        /\ searchCalls = <<>>
        /\ indexCalls = <<>>
        /\ search_results = <<>>
        /\ rewriteCalls = 1
        /\ ret.kind = "message"

\* The searchable entries among the first n entries of the query list.
Searchable(n) == SelectSeq(SubSeq(queries, 1, n), IsSearchable)

\* C8: a failed search does not end the loop: every searchable entry of the
\* list is searched, in order, blank and non-string entries are never
\* searched, and a search that fails leaves the seen-uid list and the
\* accumulated tables as they were.
C8_FailureContinues ==
    /\ [](pc = "searching" =>
            [j \in DOMAIN searchCalls |-> searchCalls[j].call.query]
               = Searchable(Min(qi - 1, Len(queries))))
    /\ [](Finished /\ rewriteOutcome = "returned" =>
            /\ [j \in DOMAIN searchCalls |-> searchCalls[j].call.query]
                  = Searchable(Len(queries))
            /\ \A j \in DOMAIN searchCalls : IsSearchable(searchCalls[j].call.query))
    /\ [][(/\ Len(searchCalls') = Len(searchCalls) + 1
           /\ searchCalls'[Len(searchCalls')].df = <<>>)
          => (/\ seen_uids' = seen_uids
              /\ all_dfs' = all_dfs
              /\ successful_queries' = successful_queries
              /\ pc' = "searching")]_vars

C8_Witness ==
    /\ pc = "done"
    /\ Len(queries) = 2
    /\ Len(searchCalls) = 2
    /\ searchCalls[1].raised
    /\ searchCalls[2].df # <<>>
    /\ ret.kind = "block"

---------------------------------------------------------------------------
(* Properties of _generate_embedding_with_retry *)

AllThrottled ==
    /\ ~IsMissing(text)
    /\ \A i \in DOMAIN outcomes : outcomes[i] = "ThrottlingException"

\* C9: whatever the embedding model answers, call after call, the function
\* raises nothing and returns (vector, True) or (None, False).
C9_NeverRaises ==
    /\ eret.kind # "raise"
    /\ epc = "done" =>
          /\ eret.kind = "return"
          /\ \/ eret.vector # "None" /\ eret.ok
             \/ eret.vector = "None" /\ ~eret.ok

C9_Witness ==
    /\ epc = "done"
    /\ Len(outcomes) >= 2
    /\ outcomes[Len(outcomes)] = "Exception"
    /\ eret = Returned("None", FALSE)

\* C10: when the model answers every attempt with ThrottlingException, the
\* function makes exactly rate_limit_retries model calls, sleeps 2^k seconds
\* after the k-th call (k counted from 0), and then returns (None, False).
C10_ThrottledBackoff ==
    AllThrottled =>
        /\ Len(outcomes) <= rate_limit_retries
        /\ sleeps = [k \in 1 .. Len(outcomes) |-> 2 ^ (k - 1)]
        /\ epc = "done" =>
              /\ Len(outcomes) = rate_limit_retries
              /\ eret = Returned("None", FALSE)
        /\ epc = "calling" => Len(outcomes) < rate_limit_retries

C10_Witness ==
    /\ epc = "done"
    /\ AllThrottled
    /\ rate_limit_retries = DEFAULT_RETRIES
    /\ Len(outcomes) = 5
    /\ sleeps = <<1, 2, 4, 8, 16>>
    /\ eret = Returned("None", FALSE)

\* C11: a ValidationException ends the call: it is the last answer of the
\* model, no sleep follows it, and the result is (None, False), on whatever
\* attempt it occurs.
C11_ValidationPermanent ==
    \A i \in DOMAIN outcomes :
        outcomes[i] = "ValidationException" =>
            /\ i = Len(outcomes)
            /\ Len(sleeps) = i - 1
            /\ epc = "done"
            /\ eret = Returned("None", FALSE)

C11_Witness ==
    /\ Len(outcomes) = 3
    /\ outcomes[3] = "ValidationException"
    /\ sleeps = <<1, 2>>
    /\ rate_limit_retries = DEFAULT_RETRIES
    /\ epc = "done"

\* The i-th answer of the model was followed by a sleep of 2^(i-1) seconds
\* and the call went on to another attempt.
RetriedAfter(i) ==
    /\ Len(sleeps) >= i
    /\ sleeps[i] = 2 ^ (i - 1)
    /\ Len(outcomes) > i \/ epc = "calling"

\* The i-th answer of the model ended the call with (None, False) and no sleep.
FailedAt(i) ==
    /\ i = Len(outcomes)
    /\ Len(sleeps) = i - 1
    /\ epc = "done"
    /\ eret = Returned("None", FALSE)

---------------------------------------------------------------------------
(* Properties of ingestion *)

\* The consumer invocations that ran past the existence check.
Checked(p) == ing[p].pc \in {"embedding", "uploading", "done"} /\ ing[p].get_calls # <<>>

\* C13: an invocation that receives a chunk after another invocation has
\* embedded and stored every text row of that chunk, and whose existence
\* check works, makes no embedding call and no put call and ends in success,
\* and the index holds exactly what the first invocation stored.
C13_IdempotentReingestion ==
    \A p \in Ingesters :
        (ing[p].after_complete /\ ing[p].get_ok /\ Checked(p)) =>
            /\ ing[p].embed_calls = <<>>
            /\ ing[p].put_calls = <<>>
            /\ ing[p].pc = "done" /\ ing[p].result = "success"
            /\ \E q \in Ingesters \ {p} :
                  /\ Completed(q, ing[p].msg[1])
                  /\ index = Range(ing[q].pending_vectors)

C13_Witness ==
    \E p \in Ingesters :
        /\ ing[p].after_complete /\ ing[p].get_ok /\ Checked(p)
        /\ Len(ing[p].text_rows) = 2
        /\ ing[p].existing_ids = Range(AllIds(ing[p].text_rows))
        /\ Cardinality(index) = 2

\* C14: concurrent ingestion converges.  Run one after the other, the second
\* of two invocations on the same chunk finds the keys of the first and
\* stores nothing, so the index keeps the records of the first.  Every
\* interleaving ends in that same state only if a record, once stored under
\* a key, is never replaced by a different record (metadata and uid
\* included).
C14_ConcurrentConvergence ==
    [][\A v \in index : v.key \in IndexKeys(index') => v \in index']_vars

\* The keys add_dataframe computed in invocation p.
IdsOf(p) == Range(AllIds(ing[p].text_rows))

Received(p) == ing[p].msg # None

\* C15: two invocations that received different chunk messages of the file
\* compute disjoint key sets, and the keys of a chunk carry row numbers of
\* its range start_row .. end_row - 1, whatever rows the filter removed.
C15_ChunkKeysDisjoint ==
    \A p, q \in Ingesters :
        (Received(p) /\ Received(q)) =>
            /\ \A id \in IdsOf(p) :
                  /\ id[1] = CsvName
                  /\ ing[p].msg[1].start_row <= id[2] /\ id[2] < ing[p].msg[1].end_row
            /\ ing[p].msg[1].chunk_number # ing[q].msg[1].chunk_number
                  => IdsOf(p) \cap IdsOf(q) = {}

C15_Witness ==
    \E p, q \in Ingesters :
        /\ Received(p) /\ Received(q)
        /\ ing[p].msg[1].chunk_number = 0 /\ ing[q].msg[1].chunk_number = 1
        /\ Len(ing[p].text_rows) = 1 /\ ing[p].text_rows[1].row.row = 1
        /\ IdsOf(p) = {<<CsvName, 0>>}
        /\ IdsOf(q) = {<<CsvName, CHUNK_SIZE>>}

\* The keys of a list of vector records, in order.
KeysOf(vectors) == [i \in 1 .. Len(vectors) |-> vectors[i].key]

\* C16: an add_dataframe call with n >= 1 filtered rows, none of them
\* reported by the existence check and all of them embedded, makes exactly
\* one put call; it carries n records, the i-th of them built from the i-th
\* filtered row under the key source_(r + i - 1), r being the row offset.
C16_OneUpsertInRowOrder ==
    \A p \in Ingesters :
        (/\ ing[p].pc = "done" /\ ing[p].text_rows # <<>>
         /\ ing[p].existing_ids = {} /\ ing[p].total_failed = 0) =>
            LET n == Len(ing[p].text_rows)
                r == ing[p].msg[1].start_row
            IN  /\ Len(ing[p].put_calls) = 1
                /\ Len(ing[p].put_calls[1]) = n
                /\ \A i \in 1 .. n :
                      /\ ing[p].put_calls[1][i].key = <<CsvName, r + i - 1>>
                      /\ ing[p].put_calls[1][i].response_id
                             = ing[p].text_rows[i].row.RESPONSEID

C16_Witness ==
    \E p, q \in Ingesters :
        /\ ing[p].pc = "done" /\ ing[p].total_failed = 0 /\ Len(ing[p].put_calls) = 1
        /\ KeysOf(ing[p].put_calls[1]) = <<<<CsvName, 0>>, <<CsvName, 1>>>>
        /\ ing[q].pc = "done" /\ ing[q].total_failed = 0 /\ Len(ing[q].put_calls) = 1
        /\ ing[q].msg[1].start_row = CHUNK_SIZE
        /\ KeysOf(ing[q].put_calls[1]) = <<<<CsvName, CHUNK_SIZE>>>>

\* The ids of the embedding calls that succeeded, in call order.
Embedded(p) ==
    LET Succeeded(c) == c.success
        calls == SelectSeq(ing[p].embed_calls, Succeeded)
    IN  [i \in 1 .. Len(calls) |-> calls[i].text_id]

\* C17: once the loop over the new rows is over, every new row had its
\* embedding call, in row order, whether or not earlier rows failed; the
\* pending records are those of the rows whose call succeeded, in row order;
\* processed + failed is the number of new rows; and the one put call, if
\* any record is pending, carries exactly the pending records.  Only a put
\* failure makes the invocation raise.
C17_RowFailureContinues ==
    \A p \in Ingesters :
        (ing[p].pc \in {"uploading", "done"} /\ ing[p].new_rows # <<>>) =>
            /\ [i \in 1 .. Len(ing[p].embed_calls) |-> ing[p].embed_calls[i].text_id]
                   = AllIds(ing[p].new_rows)
            /\ KeysOf(ing[p].pending_vectors) = Embedded(p)
            /\ ing[p].total_processed = Len(ing[p].pending_vectors)
            /\ ing[p].total_processed + ing[p].total_failed = Len(ing[p].new_rows)
            /\ ing[p].pc = "done" =>
                   /\ ing[p].put_calls
                          = IF ing[p].pending_vectors = <<>> THEN <<>>
                            ELSE <<ing[p].pending_vectors>>
                   /\ ing[p].put_calls = <<>> => ing[p].result = "success"

C17_Witness ==
    \E p \in Ingesters :
        /\ ing[p].pc = "done" /\ Len(ing[p].new_rows) = 2
        /\ ing[p].total_processed = 1 /\ ing[p].total_failed = 1
        /\ ~ing[p].embed_calls[1].success /\ ing[p].embed_calls[2].success
        /\ KeysOf(ing[p].put_calls[1]) = <<<<CsvName, 1>>>>
        /\ ing[p].result = "success"

---------------------------------------------------------------------------
(* Properties of the index gateway *)

\* C18 as the specification states it: the records handed to _upload_vectors
\* are partitioned into put calls of at most 500 records each, and the calls
\* together carry every record exactly once, in order.
C18_UpsertCeiling ==
    (gw.op = "upload" /\ gw.pc = "done") =>
        /\ \A c \in DOMAIN gw.calls : Len(gw.calls[c]) <= 500
        /\ Concat(gw.calls) = gw.vectors

\* C19: when the index rejects the put call, _upload_vectors raises the
\* error, add_dataframe lets it through, and lambda_handler raises instead
\* of returning a success response.
C19_UpsertFailureRaised ==
    \A p \in Ingesters :
        (ing[p].put_outcomes # <<>> /\ ing[p].put_outcomes[1] # "ok") =>
            /\ ing[p].raised = Some(ing[p].put_outcomes[1])
            /\ ing[p].result = "raised"
            /\ ing[p].pc = "done"

C19_Witness ==
    \E p, q \in Ingesters :
        /\ ing[p].put_outcomes = <<"ClientError">> /\ ing[p].result = "raised"
        /\ ing[q].put_outcomes = <<"Exception">> /\ ing[q].result = "raised"
        /\ index = {}

\* C20: the get_vectors calls of one _check_existing_vectors call carry
\* consecutive slices of the key list, each of 1 to 100 keys, every key in
\* exactly one of them; there is one call per slice, whatever the earlier
\* calls answered; the result is the union of what the successful calls
\* reported; and nothing is raised.
C20_ExistenceBatches ==
    (gw.op = "check" /\ gw.pc = "done") =>
        /\ Concat(gw.calls) = gw.keys
        /\ \A b \in DOMAIN gw.calls :
              Len(gw.calls[b]) >= 1 /\ Len(gw.calls[b]) <= CHECK_BATCH_SIZE
        /\ Len(gw.calls) = NumBatches(Len(gw.keys), CHECK_BATCH_SIZE)
        /\ gw.existing_ids
               = UNION {GetVectors(gw.calls[b], IndexKeys(index)) :
                            b \in {c \in DOMAIN gw.calls : gw.outcomes[c] = "ok"}}
        /\ gw.raised = None

C20_Witness ==
    /\ gw.op = "check" /\ gw.pc = "done"
    /\ Len(gw.keys) > 2 * CHECK_BATCH_SIZE
    /\ Len(gw.calls) = 3
    /\ gw.outcomes[1] = "ok" /\ gw.outcomes[2] = "error" /\ gw.outcomes[3] = "ok"
    /\ GatewayKey(1) \in gw.existing_ids
    /\ GatewayKey(CHECK_BATCH_SIZE + 1) \in IndexKeys(index)
    /\ GatewayKey(CHECK_BATCH_SIZE + 1) \notin gw.existing_ids
    /\ GatewayKey(2 * CHECK_BATCH_SIZE + 1) \in gw.existing_ids

\* The number of keys in the first b delete calls.
KeysBefore(b) == Len(Concat(SubSeq(gw.calls, 1, b - 1)))

\* C21: in delete_all_vectors, a delete call that fails with an error other
\* than not-found is the last call made, nothing is raised, and the count
\* returned is the number of keys of the calls before it, all of which
\* succeeded.
C21_DeleteAbortsOnError ==
    (gw.op = "delete" /\ gw.pc = "done") =>
        \A b \in DOMAIN gw.outcomes :
            gw.outcomes[b] = "error" =>
                /\ b = Len(gw.calls)
                /\ gw.raised = None
                /\ \A c \in 1 .. b - 1 : gw.outcomes[c] = "ok"
                /\ gw.total_deleted = KeysBefore(b)

C21_Witness ==
    /\ gw.op = "delete" /\ gw.pc = "done"
    /\ Len(gw.keys) = DEFAULT_MAX_COUNT + 1
    /\ gw.outcomes = <<"ok", "error">>
    /\ gw.total_deleted = DELETE_BATCH_SIZE
    /\ index = {}

\* C22: in delete_all_vectors a not-found answer to one delete call does not
\* end the operation: the batches after it are still sent.
C22_NotFoundContinues ==
    (gw.op = "delete" /\ gw.pc = "done") =>
        \A b \in DOMAIN gw.outcomes :
            gw.outcomes[b] = "NotFound" =>
                Len(gw.calls) = NumBatches(Len(gw.keys), DELETE_BATCH_SIZE)

\* C23 as stated: whichever external call of search fails, the embedding of
\* the query text or the index query, search raises nothing and returns an
\* empty hit set.
C23_SearchDegrades ==
    (gw.op = "search" /\ gw.pc = "done" /\ gw.failed # "none") =>
        gw.raised = None /\ gw.df = <<>>

\* The clauses of the filter search sent, in order.
SentClauses ==
    LET sent == gw.calls[1].filter
    IN  IF sent.op = "none" THEN <<>>
        ELSE IF sent.op = "and" THEN sent.clauses
        ELSE <<sent>>

\* C24: the filter search sends has, in the order of the filter entries, one
\* equality clause for each entry whose value is not empty, followed by one
\* 'uid not in exclude_uids' clause iff exclude_uids is a non-empty list;
\* two or more clauses are wrapped in an AND, a single clause is sent as it
\* is, and with no clause no filter is sent.
C24_FilterComposition ==
    (gw.op = "search" /\ gw.pc = "done" /\ gw.calls # <<>>) =>
        LET HasValue(kv) == kv[2] # ""
            active == SelectSeq(gw.args.filters, HasValue)
            excluding == gw.args.exclude_uids # None /\ gw.args.exclude_uids[1] # <<>>
            n == Len(active) + (IF excluding THEN 1 ELSE 0)
            sent == gw.calls[1].filter
        IN  /\ Len(SentClauses) = n
            /\ \A i \in 1 .. Len(active) :
                  /\ SentClauses[i].op = "eq"
                  /\ SentClauses[i].field = active[i][1]
                  /\ SentClauses[i].value = active[i][2]
            /\ excluding =>
                  /\ SentClauses[n].op = "nin"
                  /\ SentClauses[n].field = "uid"
                  /\ SentClauses[n].values = gw.args.exclude_uids[1]
            /\ n >= 2 <=> sent.op = "and"
            /\ n = 1 <=> sent.op \in {"eq", "nin"}
            /\ n = 0 <=> sent.op = "none"

C24_Witness ==
    /\ gw.op = "search" /\ gw.pc = "done" /\ gw.calls # <<>>
    /\ gw.args.filters = <<<<"event_name", "">>, <<"csv_source", "eventA">>>>
    /\ gw.args.exclude_uids = Some(<<"a", "b">>)
    /\ gw.calls[1].filter.op = "and"
    /\ Len(gw.calls[1].filter.clauses) = 2
    /\ Len(gw.df) = 1

\* The records of the put calls of invocation p.
Upserted(p) == Range(Concat(ing[p].put_calls))

\* The row of the chunk of invocation p stored under key.
RowOf(p, key) ==
    (CHOOSE entry \in Range(ing[p].text_rows) : entry.embedding_id = key).row

IsPrefix(s, full, limit) ==
    /\ s.text = full.text /\ s.from = 0
    /\ s.len = IF full.len > limit THEN limit ELSE full.len

Passes(r) ==
    /\ r.TEXT_ANSWER.len > 0
    /\ csv.has_question_type => r.QUESTION_TYPE = "Text"

\* The number of rows before position i of df that pass the filter.
PassingBefore(df, i) == Cardinality({j \in 1 .. i - 1 : Passes(df[j])})

\* The rows of a direct add_dataframe call that are to be considered: those
\* that pass the filter and have fewer than max_rows passing rows before them.
Considered(args) ==
    {args.df[i] : i \in {j \in DOMAIN args.df :
        Passes(args.df[j]) /\ PassingBefore(args.df, j) < args.max_rows}}

Called == ing[DirectCaller].pc # "idle"

\* C26: the rows add_dataframe goes on with are the considered rows, in input
\* order; the keys of the existence calls, of the embedding calls and of the
\* put call are keys of considered rows only.
C26_FilterAndCap ==
    Called =>
        LET call == ing[DirectCaller]
            rows == [i \in DOMAIN call.text_rows |-> call.text_rows[i].row]
            ids == Range(AllIds(call.text_rows))
        IN  /\ Range(rows) = Considered(call.args)
            /\ Len(rows) = Cardinality(Considered(call.args))
            /\ \A i, j \in DOMAIN rows : i < j => rows[i].row < rows[j].row
            /\ Range(Concat(call.get_calls)) \subseteq ids
            /\ call.pc # "checking" => Range(Concat(call.get_calls)) = ids
            /\ \A c \in Range(call.embed_calls) : c.text_id \in ids
            /\ \A v \in Range(Concat(call.put_calls)) : v.key \in ids
            /\ \A v \in Range(Concat(call.put_calls)) :
                  v.response_id \in {r.RESPONSEID : r \in Considered(call.args)}

C26_Witness ==
    /\ Called /\ ing[DirectCaller].pc = "done"
    /\ csv.has_question_type /\ Len(csv.rows) = 3
    /\ csv.rows[1].QUESTION_TYPE = "Choice"
    /\ Passes(csv.rows[2]) /\ Passes(csv.rows[3])
    /\ ing[DirectCaller].args.max_rows = 1
    /\ Len(ing[DirectCaller].embed_calls) = 1
    /\ Len(ing[DirectCaller].put_calls) = 1
    /\ KeysOf(ing[DirectCaller].put_calls[1]) = <<<<CsvName, 0>>>>
    /\ ing[DirectCaller].put_calls[1][1].response_id = <<"resp", 1>>

---------------------------------------------------------------------------
(* Properties of resolve_citations *)

\* The (theme, citation id) references of the output, theme by theme and
\* citation by citation.
References ==
    Concat([t \in DOMAIN output.themes |->
               [c \in DOMAIN output.themes[t].supporting_citations |->
                   [theme |-> output.themes[t].name,
                    id |-> output.themes[t].supporting_citations[c]]]])

SessionTable == Concat(search_results)

\* The references whose id is the id of a row of the session table.
KnownReferences ==
    LET Known(ref) == \E r \in DOMAIN SessionTable : SessionTable[r].id = ref.id
    IN  SelectSeq(References, Known)

\* C27: the result of resolve_citations has one record for each reference
\* whose id is in the session table, in the order of the references; the
\* record carries the theme name of the reference and the data of a table row
\* with the cited id.  References to other ids leave no record, and the
\* result is empty when the table is.
C27_OneRecordPerReference ==
    pc = "resolved" =>
        /\ Len(cited) = Len(KnownReferences)
        /\ \A k \in DOMAIN cited :
              /\ cited[k].theme = KnownReferences[k].theme
              /\ \E r \in DOMAIN SessionTable :
                    /\ SessionTable[r].id = KnownReferences[k].id
                    /\ cited[k].response_id = SessionTable[r].response_id
                    /\ cited[k].response_text = SessionTable[r].text_answer
                    /\ cited[k].survey_id = SessionTable[r].csv_source
        /\ SessionTable = <<>> => cited = <<>>

C27_Witness ==
    /\ pc = "resolved"
    /\ Len(SessionTable) = 2 /\ SessionTable[1].id # SessionTable[2].id
    /\ Len(output.themes) = 2
    /\ output.themes[1].supporting_citations = <<SessionTable[2].id, UnknownId>>
    /\ output.themes[2].supporting_citations = <<SessionTable[1].id, SessionTable[2].id>>
    /\ Len(cited) = 3
    /\ cited[1].theme = output.themes[1].name
    /\ cited[2].theme = output.themes[2].name
    /\ cited[3].response_id = SessionTable[2].response_id

---------------------------------------------------------------------------
(* Order of a multi_query_search invocation *)

\* expanding, searching, then merging, formatting and done in one step.
Rank(state) ==
    CASE state = "expanding" -> 0
      [] state = "searching" -> 1
      [] OTHER -> 2

\* C29: the invocation never goes back in the order expanding, searching,
\* (merging, formatting) done; a search is issued only after the one rewrite
\* call has returned; the searches are issued one per step, for increasing
\* positions of the expanded list, each for the query at its position; the
\* table is stored only after the loop over the list has ended, no search
\* follows it, and at most one table is stored.
C29_SessionOrder ==
    /\ [](/\ searchCalls # <<>> => rewriteCalls = 1 /\ rewriteOutcome = "returned"
          /\ pc = "expanding" => searchCalls = <<>> /\ search_results = <<>>
          /\ \A i \in DOMAIN searchCalls :
                /\ searchCalls[i].call.query = queries[searchCalls[i].call.n]
                /\ \A j \in DOMAIN searchCalls :
                      i < j => searchCalls[i].call.n < searchCalls[j].call.n
          /\ search_results # <<>> =>
                /\ Len(search_results) = 1
                /\ qi > Len(queries)
                /\ pc \in {"done", "resolved"})
    /\ [][/\ Rank(pc') >= Rank(pc)
          /\ Len(searchCalls') <= Len(searchCalls) + 1
          /\ search_results # <<>> =>
                searchCalls' = searchCalls /\ search_results' = search_results]_vars

C29_Witness ==
    /\ pc = "done" /\ rewriteCalls = 1
    /\ Len(queries) = 2 /\ Len(searchCalls) = 2
    /\ searchCalls[1].call.n = 1 /\ searchCalls[2].call.n = 2
    /\ Len(search_results) = 1

---------------------------------------------------------------------------
(* Two interleaved requests *)

InitRequests ==
    /\ index \in {c \in IndexContents : \A rec \in c : rec.uid # NoUid}
    /\ requests = [r \in Requests |-> NewInvocation]
    /\ deps_search_results = [l \in Requests |-> <<>>]
    /\ SessionIdle
    /\ EmbedIdle
    /\ IngestIdle
    /\ GatewayIdle
    /\ JobsIdle
    /\ SendIdle

NextRequests == \E r \in Requests : RequestRewrite(r) \/ RequestSearch(r) \/ RequestMerge(r)

SpecRequests == InitRequests /\ [][NextRequests]_vars

\* The hits the searches of request r have returned so far, in call order.
ReturnedTo(r) == Concat([i \in DOMAIN requests[r].calls |-> requests[r].calls[i].df])

\* The uids request r received before its i-th search.
OwnUidsBefore(r, i) ==
    Concat([j \in 1 .. i - 1 |-> UidList(requests[r].calls[j].df)])

\* A stored row without its citation id.
Unlabelled(row) ==
    [uid |-> row.uid, similarity_score |-> row.similarity_score,
     text_answer |-> row.text_answer, question |-> row.question,
     event_name |-> row.event_name, response_id |-> row.response_id,
     csv_source |-> row.csv_source]

\* The tables run_query_with_citations reads from the deps of request r.
TablesOf(r) == deps_search_results[SearchResultsOf(r)]

\* C28: with two requests interleaved on the shared agent and embedding
\* store, the exclude uids of every search of a request are exactly the uids
\* of the hits that request itself received before, and every row of a table
\* stored for a request is a hit one of its own searches returned.
C28_SessionsIsolated ==
    \A r \in Requests :
        /\ \A i \in DOMAIN requests[r].calls :
              requests[r].calls[i].exclude_uids = ExcludeArg(OwnUidsBefore(r, i))
        /\ \A t \in DOMAIN TablesOf(r) :
              \A k \in DOMAIN TablesOf(r)[t] :
                 Unlabelled(TablesOf(r)[t][k]) \in Range(ReturnedTo(r))

\* Both requests have finished after interleaved searches, each sent an
\* exclusion list, each stored a table, and request 1 received a uid that
\* request 2 never did.
C28_Witness ==
    /\ \A r \in Requests :
          /\ requests[r].pc = "done"
          /\ \E i \in DOMAIN requests[r].calls : requests[r].calls[i].exclude_uids # None
          /\ Len(TablesOf(r)) = 1
    /\ \E row \in Range(ReturnedTo(1)) :
          \A other \in Range(ReturnedTo(2)) : other.uid # row.uid

---------------------------------------------------------------------------
(* One add_dataframe call with its retry loops, run to its end *)

\* The values of EMBEDDING_RATE_LIMIT_RETRIES of the call.
RetryBudgets == {0, 1, 2}

\* The files of the call: every row is a text answer, so that the rows the
\* call embeds are the first max_rows of the file.
TextFiles ==
    {f \in CsvFiles : \A i \in DOMAIN f.rows :
        f.rows[i].TEXT_ANSWER.len > 0 /\ f.rows[i].QUESTION_TYPE = "Text"}

InitTermination ==
    /\ csv \in TextFiles
    /\ messages = <<>>
    /\ chunks_sent = None
    /\ ing = [p \in Ingesters |-> IdleIngester]
    /\ text = "" /\ attempt = 0 /\ epc = "idle" /\ outcomes = <<>> /\ sleeps = <<>>
    /\ eret = NotReturned /\ invoke_calls = 0
    /\ rate_limit_retries \in RetryBudgets
    /\ SearchIdle
    /\ GatewayIdle
    /\ RequestsIdle
    /\ JobsIdle
    /\ SendIdle

NextTermination ==
    \/ AddDataframe
    \/ CheckExisting
    \/ EmbedRowCall
    \/ EmbedStart
    \/ InvokeModel
    \/ EmbedRowReturn
    \/ Upload

\* The calls are sequential statements of one thread and every external call
\* returns or raises, so an enabled step is eventually taken.
SpecTermination == InitTermination /\ [][NextTermination]_vars /\ WF_vars(NextTermination)

\* C30: one add_dataframe call always ends, by returning or raising, and up
\* to then the embedding model has been called at most n * N times for n new
\* rows and N = rate_limit_retries, the existence check at most
\* ceil(n_keys / 100) times and the upsert at most once, whatever the
\* external services answer; one _generate_embedding_with_retry call never
\* makes more than N model calls.
C30_BoundedIngestion ==
    /\ [](/\ invoke_calls <= Len(ing[DirectCaller].new_rows) * rate_limit_retries
          /\ Len(ing[DirectCaller].get_calls)
                <= NumBatches(Len(ing[DirectCaller].text_rows), CHECK_BATCH_SIZE)
          /\ Len(ing[DirectCaller].put_calls) <= 1
          /\ Len(outcomes) <= rate_limit_retries)
    /\ <>[](ing[DirectCaller].pc = "done" /\ ing[DirectCaller].result # "none")

\* The call has ended after the model used up every attempt for each of
\* several new rows.
C30_Witness ==
    /\ ing[DirectCaller].pc = "done"
    /\ Len(ing[DirectCaller].new_rows) >= 2
    /\ rate_limit_retries >= 2
    /\ invoke_calls = Len(ing[DirectCaller].new_rows) * rate_limit_retries
    /\ Len(ing[DirectCaller].get_calls) = 1

\* The searches of the invocation that ran to their end.
ExecutedSearches == SelectSeq(searchCalls, LAMBDA c : ~c.raised)

\* C31 as stated: in the block a successful multi_query_search returns, the
\* response count of the header is the number of hit lines and the number of
\* rows stored in the session, and the query count of the header is the
\* number of expanded queries whose search was executed.
C31_HeaderCounts ==
    (pc = "done" /\ ret.kind = "block") =>
        /\ Len(search_results) = 1
        /\ ret.total_unique = Len(ret.lines)
        /\ ret.total_unique = Len(search_results[1])
        /\ ret.queries = Len(ExecutedSearches)

\* C32 as stated: the record upserted for the row at absolute position p of
\* the source file has the key source_p, also when the text filter removed
\* earlier rows of the chunk.
C32_KeyIsAbsoluteRow ==
    \A p \in Ingesters :
        Received(p) =>
            \A v \in Upserted(p) : v.key = <<CsvName, RowOf(p, v.key).row>>

---------------------------------------------------------------------------
(* Two requests to the job initiator and the agent invocations they cause *)

InitJobs ==
    /\ job_table = [j \in Initiations |-> NoItem]
    /\ \E keys \in [Initiations -> IdempotencyKeys] :
          initiators = [r \in Initiations |->
                           [IdleInitiator EXCEPT !.pc = "start",
                                                 !.idempotency_key = keys[r]]]
    /\ agent_calls = <<>>
    /\ SearchIdle
    /\ EmbedIdle
    /\ IngestIdle
    /\ GatewayIdle
    /\ RequestsIdle
    /\ SendIdle

NextJobs ==
    \/ CreateJobLookup
    \/ CreateJobPut
    \/ AgentStart
    \/ AgentFinish

SpecJobs == InitJobs /\ [][NextJobs]_vars

\* Every asynchronous invocation that was issued runs to its end, and so
\* does every request.
SpecJobsFair == SpecJobs /\ WF_vars(NextJobs)

----------------------------------------------------------------------------
(* One send_messages_to_sqs call *)

InitSend ==
    /\ \E msgs \in MessageLists :
          sender = [IdleSender EXCEPT !.pc = "looping", !.messages = msgs]
    /\ SearchIdle
    /\ EmbedIdle
    /\ IngestIdle
    /\ GatewayIdle
    /\ RequestsIdle
    /\ JobsIdle

NextSend ==
    \/ AppendEntry
    \/ AppendAndSend
    \/ SendRemaining

SpecSend == InitSend /\ [][NextSend]_vars

---------------------------------------------------------------------------
(* Claims on the job lifecycle *)

\* The invocations of the agent handler that go back to request r.
CallsOf(r) == {i \in DOMAIN agent_calls : agent_calls[i].origin = r}

\* The invocations request r caused with the given retry count.
CallsWith(r, retry_count) ==
    {i \in CallsOf(r) : agent_calls[i].retry_count = retry_count}

\* C33 as stated: of the create_job calls that carry one idempotency key, at
\* most one writes a job record with the key, and all of them return the
\* same jobId.
C33_IdempotentCreate ==
    \A r, q \in Initiations :
        (/\ initiators[r].idempotency_key # None
         /\ initiators[r].idempotency_key = initiators[q].idempotency_key) =>
            /\ Cardinality(MatchingJobs(job_table, initiators[r].idempotency_key)) <= 1
            /\ (initiators[r].job_id # 0 /\ initiators[q].job_id # 0)
                  => initiators[r].job_id = initiators[q].job_id

\* C34: the invocations that go back to one request attempt the query at
\* most MAX_RETRIES + 1 = 2 times; an attempt that failed with retry_count
\* below 1 calls invoke once, with retry_count + 1, and does not call
\* fail_job; an attempt that failed with retry_count 1 or more calls fail_job
\* and invokes nothing; an attempt that succeeded calls complete_job and
\* invokes nothing.
C34_BoundedRetry ==
    \A r \in Initiations :
        /\ Cardinality({i \in CallsOf(r) : agent_calls[i].attempt # "none"}) <= 2
        /\ \A i \in CallsOf(r) :
              LET call == agent_calls[i]
                  next == CallsWith(r, call.retry_count + 1)
              IN  /\ (call.attempt = "error" /\ call.retry_count < 1) =>
                        /\ call.mark = "none"
                        /\ call.reinvoked # call.raised
                        /\ Cardinality(next) = IF call.reinvoked THEN 1 ELSE 0
                  /\ (call.attempt = "error" /\ call.retry_count >= 1) =>
                        /\ call.mark = "fail" /\ ~call.reinvoked /\ next = {}
                  /\ call.attempt = "ok" =>
                        /\ call.mark = "complete" /\ ~call.reinvoked /\ next = {}
                  /\ call.attempt = "none" => next = {}

\* The first attempt of a request failed and re-invoked the handler, the
\* second failed too and marked the job FAILED.
C34_Witness ==
    \E r \in Initiations :
        \E i, k \in CallsOf(r) :
            /\ agent_calls[i].retry_count = 0 /\ agent_calls[i].attempt = "error"
            /\ agent_calls[i].reinvoked
            /\ agent_calls[k].retry_count = 1 /\ agent_calls[k].attempt = "error"
            /\ agent_calls[k].mark = "fail"
            /\ job_table[agent_calls[k].job_id].status = "FAILED"

StatusRank(status) ==
    CASE status = "none" -> 0
      [] status = "PENDING" -> 1
      [] status = "PROCESSING" -> 2
      [] OTHER -> 3

\* C35 as stated: the stored status of a job never moves backwards in the
\* order PENDING, PROCESSING, COMPLETED or FAILED, and once it is COMPLETED
\* or FAILED it never changes, whatever requests and handler invocations
\* take place.
C35_ForwardOnly ==
    [][\A j \in Initiations :
          /\ StatusRank(job_table'[j].status) >= StatusRank(job_table[j].status)
          /\ job_table[j].status \in {"COMPLETED", "FAILED"}
                => job_table'[j].status = job_table[j].status]_vars

\* C36 as stated: every job the initiator created a record for ends up with
\* the stored status COMPLETED or FAILED, given that every invocation that
\* was issued runs to its end, also when a table write or an invoke fails.
C36_JobsSettle ==
    \A j \in Initiations :
        [](job_table[j].present => <>(job_table[j].status \in {"COMPLETED", "FAILED"}))

\* The excerpts a theme is due: for each of its citation ids that is the id
\* of a row of the table, in order, the text of the first such row.
DueExcerpts(theme, table) ==
    LET known == SelectSeq(theme.supporting_citations,
                           LAMBDA c : \E i \in DOMAIN table : table[i].id = c)
    IN  [k \in 1 .. Len(known) |->
            [excerpt |-> SelectSeq(table, LAMBDA row : row.id = known[k])[1].text_answer]]

\* C37 as stated: every citation id of a theme that resolves to a row of the
\* combined search table appears in the supporting_citations of that theme
\* in the enriched response, with the excerpt of that row, also when rows of
\* the table share a response_id.
C37_CitationsEnriched ==
    pc = "resolved" =>
        /\ Len(response.themes) = Len(output.themes)
        /\ \A t \in DOMAIN output.themes :
              response.themes[t].supporting_citations
                 = DueExcerpts(output.themes[t], SessionTable)

\* The rows of the session table that carry the uid.
RowsWithUid(uid) ==
    {i \in DOMAIN SessionTable : SessionTable[i].uid = uid}

\* The records of the index carry a uid each, and no two the same one.
DistinctUids ==
    \A r1, r2 \in index : r1.uid # NoUid /\ (r1.uid = r2.uid => r1 = r2)

\* C38 as stated: the search_results returned by run_query_with_citations,
\* the concatenation of the tables stored during the request, hold each uid
\* at most once, also when multi_query_search was invoked more than once.  It is
\* checked for indexes whose records carry distinct uids.
C38_UidOncePerRequest ==
    (pc = "resolved" /\ DistinctUids) =>
        \A rec \in index : Cardinality(RowsWithUid(rec.uid)) <= 1

----------------------------------------------------------------------------
(* Properties of the chunking of a file *)

\* The least number of chunks of CHUNK_SIZE rows that hold total_rows rows.
CeilChunks(total_rows) ==
    CHOOSE n \in 0 .. total_rows : /\ n * CHUNK_SIZE >= total_rows
                                   /\ \A k \in 0 .. n - 1 : k * CHUNK_SIZE < total_rows

\* The messages whose [start_row, end_row) range holds the row.
ChunksHolding(row) ==
    {c \in DOMAIN messages : messages[c].start_row <= row /\ row < messages[c].end_row}

\* C39: for a file of total_rows > 0 data rows process_csv_file creates
\* ceil(total_rows / CHUNK_SIZE) chunk messages numbered 0, 1, 2, ... whose
\* [start_row, end_row) ranges are non-empty, at most CHUNK_SIZE long,
\* pairwise disjoint and contiguous, and together cover exactly the rows
\* 0 .. total_rows - 1.
C39_ChunksPartitionRows ==
    (chunks_sent # None /\ Len(csv.rows) > 0) =>
        LET total_rows == Len(csv.rows)
        IN  /\ Len(messages) = CeilChunks(total_rows)
            /\ \A c \in DOMAIN messages :
                  /\ messages[c].chunk_number = c - 1
                  /\ messages[c].start_row < messages[c].end_row
                  /\ messages[c].end_row - messages[c].start_row <= CHUNK_SIZE
                  /\ messages[c].start_row >= 0
                  /\ messages[c].end_row <= total_rows
                  /\ c > 1 => messages[c].start_row = messages[c - 1].end_row
            /\ \A c, d \in DOMAIN messages :
                  c < d => messages[c].end_row <= messages[d].start_row
            /\ \A row \in 0 .. total_rows - 1 : Cardinality(ChunksHolding(row)) = 1

\* A file of more rows than one chunk holds, the last chunk not full.
C39_Witness ==
    /\ chunks_sent # None
    /\ Len(messages) > 1
    /\ Len(csv.rows) % CHUNK_SIZE # 0
    /\ messages[Len(messages)].end_row = Len(csv.rows)

----------------------------------------------------------------------------
(* Properties of send_messages_to_sqs *)

\* The message bodies handed to send_message_batch so far, in call order.
RECURSIVE BodiesOf(_)
BodiesOf(calls) ==
    IF calls = <<>> THEN <<>>
    ELSE BodiesOf(SubSeq(calls, 1, Len(calls) - 1))
            \o [k \in 1 .. Len(calls[Len(calls)].Entries) |->
                    calls[Len(calls)].Entries[k].MessageBody]

\* C40: send_messages_to_sqs sends every message exactly once, in order, in
\* batches of at most 10 entries; when it returns, the returned count is the
\* number of messages given; when a batch send fails or reports failed
\* entries it raises, and no later batch is sent.
C40_SendsEachOnce ==
    LET bodies == BodiesOf(sender.calls)
    IN  /\ \A c \in DOMAIN sender.calls :
              /\ Len(sender.calls[c].Entries) \in 1 .. 10
              /\ sender.calls[c].outcome # "ok" =>
                    c = Len(sender.calls) /\ sender.pc = "raised"
        /\ Len(bodies) <= Len(sender.messages)
        /\ bodies = SubSeq(sender.messages, 1, Len(bodies))
        /\ sender.pc = "raised" =>
              /\ sender.calls # <<>>
              /\ sender.calls[Len(sender.calls)].outcome # "ok"
              /\ sender.result = None
        /\ sender.pc = "returned" =>
              /\ bodies = sender.messages
              /\ sender.result = Some(Len(sender.messages))

\* A call that returned after a full batch and a shorter one.
C40_Witness ==
    /\ sender.pc = "returned"
    /\ Len(sender.calls) = 2
    /\ Len(sender.calls[1].Entries) = 10
    /\ Len(sender.calls[2].Entries) < 10

=============================================================================
